---- MODULE Spec2Model ----
(***************************************************************************)
(* Model of the image-alignment service of logo-lapser                     *)
(* (src/services/imageProcessorService.ts): performAlignment,              *)
(* processImageLocally and refineWithGoldenTemplate, with the native       *)
(* OpenCV.js objects each of them allocates and releases.                  *)
(*                                                                         *)
(* The outcomes of the OpenCV primitives (descriptor counts, k-NN match    *)
(* lists, RANSAC fits, thrown exceptions of the rendering calls) are the   *)
(* inputs of the model; every action draws them from the small sets        *)
(* defined below.                                                          *)
(***************************************************************************)
EXTENDS Integers, Sequences, FiniteSets, TLC

\* ------------------------------------------------------------------------
\* Bounds of the model
\* ------------------------------------------------------------------------
\* largest number of strong candidate matches a k-NN result holds
MaxMatches == 10
\* largest number of borderline candidate matches a k-NN result holds
MaxWeak == 1
\* number of service calls in one behaviour
MaxCalls == 2
\* largest warped width/height of the canvas specification
MaxDim == 20
\* largest number of uploaded files of a batch run
MaxFiles == 3
\* largest number of AI variations of a batch run
MaxVariations == 2
\* files uploaded or being decoded at one time
MaxUploaded == 4

\* ------------------------------------------------------------------------
\* Matrices: a matrix is a sequence of rows, the empty Mat is <<>>
\* ------------------------------------------------------------------------
EmptyMat == <<>>

empty(m) == m = EmptyMat

rows(m) == Len(m)

cols(m) == IF m = EmptyMat THEN 0 ELSE Len(m[1])

\* cv.matFromArray(3, 3, CV_64FC1, [1,0,0, 0,1,0, 0,0,1])
Identity3x3 == << <<1, 0, 0>>, <<0, 1, 0>>, <<0, 0, 1>> >>

\* cv.matFromArray(2, 3, CV_64FC1, [1,0,0, 0,1,0])
Identity2x3 == << <<1, 0, 0>>, <<0, 1, 0>> >>

\* the 3x3 embedding of a 2x3 affine, bottom row [0,0,1]
affine3x3Of(a) == << a[1], a[2], <<0, 0, 1>> >>

\* cv.gemm(src1, src2, alpha, src3, 0, dst, 0): dst = alpha * src1 * src2
\* (beta is 0 at both call sites, src3 does not contribute)
gemmSwapped(src1, src2, alpha) ==
    [i \in 1..3 |-> [j \in 1..3 |->
        alpha * (src2[i][1] * src1[1][j] + src2[i][2] * src1[2][j]
                 + src2[i][3] * src1[3][j])]]

gemm(src1, src2, alpha) ==
    [i \in 1..3 |-> [j \in 1..3 |->
        alpha * (src1[i][1] * src2[1][j] + src1[i][2] * src2[2][j]
                 + src1[i][3] * src2[3][j])]]

\* the top two rows of a 3x3 matrix copied into a new 2x3 Mat
topTwoRows(m) == << m[1], m[2] >>

\* results a robust affine fit can return besides the empty Mat
AffineSamples ==
    { << <<1, 0, 2>>, <<0, 1, 1>> >>,
      << <<0, -1, 3>>, <<1, 0, 0>> >> }

\* results a robust homography fit can return besides the empty Mat
HomographySamples ==
    { << <<1, 0, 1>>, <<0, 1, 0>>, <<0, 0, 1>> >>,
      << <<1, 0, 0>>, <<0, 2, 0>>, <<1, 0, 1>> >> }

AffineFits == AffineSamples \cup {EmptyMat}

HomographyFits == HomographySamples \cup {EmptyMat}

\* ------------------------------------------------------------------------
\* k-NN matching and the ratio test
\* ------------------------------------------------------------------------
\* MIN_MATCH_COUNT = isGreedy ? 5 : 10
MIN_MATCH_COUNT(isGreedy) == IF isGreedy THEN 5 ELSE 10

\* RATIO_TEST_THRESHOLD = isGreedy ? 0.85 : 0.75, in hundredths
RATIO_TEST_THRESHOLD(isGreedy) == IF isGreedy THEN 85 ELSE 75

\* A k-NN result (k = 2): one entry per query descriptor, each a sequence
\* of its nearest neighbours.  The sample holds `strong' entries of
\* distance ratio 0.70, `weak' entries of ratio exactly 0.75, one entry of
\* ratio exactly 0.85 and one entry with a single neighbour.
knnMatch(strong, weak) ==
    [i \in 1..(strong + weak + 2) |->
        IF i <= strong
        THEN << [distance |-> 7, queryIdx |-> i], [distance |-> 10, queryIdx |-> i] >>
        ELSE IF i <= strong + weak
        THEN << [distance |-> 3, queryIdx |-> i], [distance |-> 4, queryIdx |-> i] >>
        ELSE IF i = strong + weak + 1
        THEN << [distance |-> 17, queryIdx |-> i], [distance |-> 20, queryIdx |-> i] >>
        ELSE << [distance |-> 5, queryIdx |-> i] >>]

KnnResults == { knnMatch(s, w) : s \in 0..MaxMatches, w \in 0..MaxWeak }

\* m.distance < RATIO_TEST_THRESHOLD * n.distance, for match.size() > 1
passesRatioTestLoose(match, threshold) ==
    /\ Len(match) > 1
    /\ match[1].distance * 100 <= threshold * match[2].distance

passesRatioTest(match, threshold) ==
    /\ Len(match) > 1
    /\ match[1].distance * 100 < threshold * match[2].distance

\* the loop that collects goodMatches: the nearest neighbour of every entry
\* that passes the ratio test, in order
RECURSIVE ratioFilter(_, _)
ratioFilter(matchList, threshold) ==
    IF matchList = <<>> THEN <<>>
    ELSE LET rest == ratioFilter(Tail(matchList), threshold)
         IN  IF passesRatioTest(Head(matchList), threshold)
             THEN <<Head(matchList)[1]>> \o rest
             ELSE rest

\* ------------------------------------------------------------------------
\* Canvas computation of processImageLocally
\* ------------------------------------------------------------------------
\* targetAspectRatio = 9.0 / 16.0
TargetAspectNum == 9

TargetAspectDen == 16

\* Math.round(a / b) for a >= 0, b > 0: floor(a/b + 1/2)
MathRoundTrunc(a, b) == a \div b

MathRound(a, b) == (2 * a + b) \div (2 * b)

\* [finalWidth, finalHeight] for a warped image of the given size
canvasSize(warpedWidth, warpedHeight) ==
    IF warpedWidth * TargetAspectDen > warpedHeight * TargetAspectNum
    THEN [finalWidth  |-> warpedWidth,
          finalHeight |-> MathRound(warpedWidth * TargetAspectDen, TargetAspectNum)]
    ELSE [finalWidth  |-> MathRound(warpedHeight * TargetAspectNum, TargetAspectDen),
          finalHeight |-> warpedHeight]

\* Math.floor(pad / 2) for pad >= 0
MathFloorHalfUp(pad) == (pad + 1) \div 2

MathFloorHalf(pad) == pad \div 2

NoBorder == [top |-> 0, bottom |-> 0, left |-> 0, right |-> 0]

\* lines 347-353: the border copyMakeBorder adds around the warped image
borderOf(finalW, finalH, warpedW, warpedH) ==
    LET padX == finalW - warpedW
        padY == finalH - warpedH
        leftPad == MathFloorHalf(padX)
        topPad == MathFloorHalf(padY)
    IN  [top |-> topPad, bottom |-> padY - topPad,
         left |-> leftPad, right |-> padX - leftPad]

\* sizes of the master image in the service specification
ImageDims == { <<9, 16>>, <<16, 9>>, <<8, 8>> }

\* ------------------------------------------------------------------------
\* Native objects: the heap records which are live and which were deleted
\* ------------------------------------------------------------------------
EmptyHeap == [live |-> {}, deleted |-> {}, doubleDelete |-> FALSE]

\* new cv.X(...) and the cv functions that return a fresh Mat
allocate(h, objs) == [h EXCEPT !.live = @ \cup objs, !.deleted = @ \ objs]

\* obj.delete() without a guard; deleting a deleted object is an error
delete(h, objs) ==
    [live |-> h.live \ objs,
     deleted |-> h.deleted \cup (objs \cap h.live),
     doubleDelete |-> h.doubleDelete \/ (objs \cap h.deleted # {})]

\* if (obj && !obj.isDeleted()) obj.delete()
deleteIfLive(h, objs) == delete(h, objs \cap h.live)

NoError == [kind |-> "none"]

Urls == {"urlA", "urlB"}

Pending == [state |-> "pending"]

\* ------------------------------------------------------------------------
\* State
\* ------------------------------------------------------------------------
VARIABLES
    pc,                  \* position of the running call
    call,                \* the exported function called and its arguments
    pa,                  \* the parameters performAlignment was called with
    alignCalls,          \* performAlignment invocations of the running call
    heap,                \* native objects of the running call
    paMats,              \* `mats' of performAlignment
    mats,                \* `mats' of the exported function
    matches,             \* k-NN result of the initial match
    goodMatches,         \* ratio-test survivors of the initial match
    goodMatchesRefined,  \* ratio-test survivors of the re-match
    affineMatrix,        \* coarse affine of the perspective strategy
    homographyRefinement, \* refinement homography of the perspective strategy
    directHomography,    \* one-shot homography on the raw correspondences
    affineTransform,     \* first affine of the affine strategy
    affineRefinement,    \* second affine of the affine strategy
    transformMatrix,     \* the transform selected so far
    transformObj,        \* the native object that holds transformMatrix
    err,                 \* the error thrown, if any
    result,              \* the promise of the running call
    debugUrl,            \* the diagnostic image of processImageLocally
    warp,                \* the warp applied by processImageLocally
    warpedWidth, warpedHeight, finalWidth, finalHeight,
    border,              \* the four pads handed to copyMakeBorder
    outstanding,         \* native objects left live by the settled calls
    calls,               \* number of calls started
    uploadedFiles,       \* App state: the uploaded files, in upload order
    masterFileId,        \* App state: id of the designated master, or NoId
    isEnsembleCorrectionEnabled, isAiVariationsEnabled, numVariations,
    aspectRatio,         \* App state: the selected aspect ratio
    processedFiles,      \* App state: the artifacts shown to the user
    error,               \* App state: the entries of the error message
    isProcessing,        \* App state
    processingStatus,    \* App state
    bpc,                 \* position of handleProcessImages
    idx,                 \* position of the running loop of handleProcessImages
    stage1Results, refinedResults, stage2Results, finalResults,
    variations,          \* the AI-variation tasks of stage 4
    alignLog,            \* the service calls made by the run, in order
    closure,             \* the state handleProcessImages captured at its call
    yields,              \* number of yieldToMain calls of the run
    resetAt,             \* length of alignLog at the last resetState, or -1
    pendingDrops,        \* the drops whose images are still being decoded
    gpc,                 \* position of generateVariation
    retryCount,          \* generateVariation: retryCount
    attemptLog,          \* generateVariation: the outcome of each attempt
    returned,            \* generateVariation: the images returned
    thrown,              \* generateVariation: the error thrown, if any
    viewMode, currentIndex, isPlaying,   \* Previewer state
    effectPending,       \* Previewer: the files/master effect has not run yet
    fixingImageId        \* App state: the file handlePerspectiveFix works on

\* state of the handlers and components outside a batch run
previewVars == << viewMode, currentIndex, isPlaying, effectPending >>

genVars == << gpc, retryCount, attemptLog, returned, thrown >>

componentVars == << pendingDrops, previewVars, genVars >>

vars == << pc, call, pa, alignCalls, heap, paMats, mats, matches, goodMatches,
           goodMatchesRefined, affineMatrix, homographyRefinement,
           directHomography, affineTransform, affineRefinement,
           transformMatrix, transformObj, err, result, debugUrl, warp,
           warpedWidth, warpedHeight, finalWidth, finalHeight, border,
           outstanding, calls, uploadedFiles, masterFileId,
           isEnsembleCorrectionEnabled, isAiVariationsEnabled, numVariations,
           aspectRatio, processedFiles, error, isProcessing, processingStatus,
           bpc, idx, stage1Results, refinedResults, stage2Results, finalResults,
           variations, alignLog, closure, yields, resetAt, fixingImageId,
           componentVars >>

\* the state of the App component
appVars == << uploadedFiles, masterFileId, isEnsembleCorrectionEnabled,
              isAiVariationsEnabled, numVariations, aspectRatio,
              processedFiles, error, isProcessing, processingStatus, bpc, idx,
              stage1Results, refinedResults, stage2Results, finalResults,
              variations, alignLog, closure, yields, resetAt, fixingImageId,
           componentVars >>

\* App and component state a batch run neither reads nor writes
uiVars == << fixingImageId, componentVars >>

\* what handleProcessImages reads and leaves alone
settingVars == << uploadedFiles, masterFileId, isEnsembleCorrectionEnabled,
                  isAiVariationsEnabled, numVariations, aspectRatio >>

\* variables of one call's alignment locals
alignVars == << matches, goodMatches, goodMatchesRefined, affineMatrix,
                homographyRefinement, directHomography, affineTransform,
                affineRefinement, transformMatrix, transformObj >>

canvasVars == << warpedWidth, warpedHeight, finalWidth, finalHeight, border >>

\* masterFileId = null
NoId == 0

\* type AspectRatio
AspectRatios == {"9:16", "1:1", "16:9"}

\* nothing captured yet
NoClosure == [uploadedFiles |-> <<>>, masterFileId |-> NoId]

\* the remaining App and component state as constructed
UiIdle ==
    /\ fixingImageId = NoId
    /\ pendingDrops = <<>>
    /\ viewMode = "grid"
    /\ currentIndex = 0
    /\ isPlaying = FALSE
    /\ effectPending = FALSE
    /\ gpc = "idle"
    /\ retryCount = 0
    /\ attemptLog = <<>>
    /\ returned = <<>>
    /\ thrown = <<>>

\* the App with the given files and settings, before a run
AppState(files, master, ensemble, ai, n, ratio) ==
    /\ uploadedFiles = files
    /\ masterFileId = master
    /\ isEnsembleCorrectionEnabled = ensemble
    /\ isAiVariationsEnabled = ai
    /\ numVariations = n
    /\ aspectRatio = ratio
    /\ processedFiles = <<>>
    /\ error = <<>>
    /\ isProcessing = FALSE
    /\ processingStatus = ""
    /\ bpc = "ready"
    /\ idx = 0
    /\ stage1Results = <<>>
    /\ refinedResults = <<>>
    /\ stage2Results = <<>>
    /\ finalResults = <<>>
    /\ variations = <<>>
    /\ alignLog = <<>>
    /\ closure = NoClosure
    /\ yields = 0
    /\ resetAt = -1
    /\ UiIdle

\* the App as its useState calls construct it
AppInit == AppState(<<>>, NoId, TRUE, FALSE, 1, "9:16")

NoCall == [name |-> "none", isGreedyMode |-> FALSE, isRefinementEnabled |-> FALSE,
           isPerspectiveCorrectionEnabled |-> FALSE, isMaster |-> FALSE,
           processedImageUrl |-> "none"]

NoParams == [isGreedy |-> FALSE, useRefinement |-> FALSE,
             usePerspectiveCorrection |-> FALSE]

\* the locals of a call before it runs
FreshLocals ==
    /\ pa' = NoParams
    /\ alignCalls' = 0
    /\ heap' = EmptyHeap
    /\ paMats' = {}
    /\ mats' = {}
    /\ matches' = <<>>
    /\ goodMatches' = <<>>
    /\ goodMatchesRefined' = <<>>
    /\ affineMatrix' = EmptyMat
    /\ homographyRefinement' = EmptyMat
    /\ directHomography' = EmptyMat
    /\ affineTransform' = EmptyMat
    /\ affineRefinement' = EmptyMat
    /\ transformMatrix' = EmptyMat
    /\ transformObj' = "none"
    /\ err' = NoError
    /\ result' = Pending
    /\ debugUrl' = "none"
    /\ warp' = "none"
    /\ warpedWidth' = 0
    /\ warpedHeight' = 0
    /\ finalWidth' = 0
    /\ finalHeight' = 0
    /\ border' = NoBorder

Init ==
    /\ pc = "idle"
    /\ call = NoCall
    /\ pa = NoParams
    /\ alignCalls = 0
    /\ heap = EmptyHeap
    /\ paMats = {}
    /\ mats = {}
    /\ matches = <<>>
    /\ goodMatches = <<>>
    /\ goodMatchesRefined = <<>>
    /\ affineMatrix = EmptyMat
    /\ homographyRefinement = EmptyMat
    /\ directHomography = EmptyMat
    /\ affineTransform = EmptyMat
    /\ affineRefinement = EmptyMat
    /\ transformMatrix = EmptyMat
    /\ transformObj = "none"
    /\ err = NoError
    /\ result = Pending
    /\ debugUrl = "none"
    /\ warp = "none"
    /\ warpedWidth = 0
    /\ warpedHeight = 0
    /\ finalWidth = 0
    /\ finalHeight = 0
    /\ border = NoBorder
    /\ outstanding = 0
    /\ calls = 0
    /\ AppInit

\* ------------------------------------------------------------------------
\* performAlignment
\* ------------------------------------------------------------------------
\* where control goes when performAlignment returns or throws
returnPc == IF call.name = "processImageLocally" THEN "pil_debug" ELSE "rgt_warp"

catchPc == IF call.name = "processImageLocally" THEN "pil_catch" ELSE "rgt_catch"

\* finally { mats.forEach(delete if live); akaze.delete(); clahe.delete(); }
paFinally(h, ms) ==
    delete(deleteIfLive(h, ms), {"akaze", "clahe"} \cap (h.live \cup h.deleted))

\* lines 36-63: keypoint sets, grayscale + CLAHE, detector, matcher,
\* detectAndCompute on both images, the zero-descriptor check
PaDetect(rowsBase, rowsTarget) ==
    /\ pc = "pa_detect"
    /\ heap' = allocate(heap, {"keypointsBase", "keypointsTarget", "baseGray",
                               "targetGray", "clahe", "akaze", "bf",
                               "descriptorsBase", "maskBase",
                               "descriptorsTarget", "maskTarget"})
    /\ paMats' = {"baseGray", "targetGray", "descriptorsBase", "descriptorsTarget"}
    /\ IF rowsBase = 0 \/ rowsTarget = 0
       THEN /\ err' = [kind |-> "NoFeatures"]
            /\ pc' = "pa_catch"
       ELSE /\ err' = err
            /\ pc' = "pa_match"
    /\ UNCHANGED << call, pa, alignCalls, mats, alignVars, result, debugUrl,
                    warp, canvasVars, outstanding, calls,
                    appVars >>

\* lines 65-95: knnMatch, the ratio test, the minimum-match gate and the
\* point matrices of the survivors
PaMatch(knn) ==
    /\ pc = "pa_match"
    /\ matches' = knn
    /\ goodMatches' = ratioFilter(knn, RATIO_TEST_THRESHOLD(pa.isGreedy))
    /\ IF Len(goodMatches') < MIN_MATCH_COUNT(pa.isGreedy)
       THEN /\ heap' = allocate(heap, {"matches"})
            /\ paMats' = paMats \cup {"matches"}
            /\ err' = [kind |-> "NotEnoughGoodMatches",
                       count |-> Len(goodMatches'),
                       required |-> MIN_MATCH_COUNT(pa.isGreedy)]
            /\ pc' = "pa_catch"
       ELSE /\ heap' = allocate(heap, {"matches", "matBasePts", "matTargetPts"})
            /\ paMats' = paMats \cup {"matches", "matBasePts", "matTargetPts"}
            /\ err' = err
            /\ pc' = IF pa.usePerspectiveCorrection THEN "pa_coarse" ELSE "pa_affine"
    /\ UNCHANGED << call, pa, alignCalls, mats, goodMatchesRefined,
                    affineMatrix, homographyRefinement, directHomography,
                    affineTransform, affineRefinement, transformMatrix,
                    transformObj, result, debugUrl, warp, canvasVars,
                    outstanding, calls,
                    appVars >>

\* transformMatrix = cv.findHomography(matTargetPts, matBasePts, cv.RANSAC):
\* the one-shot homography on the raw correspondences (lines 102, 136, 154)
FallBackSkipsAssignment(direct) ==
    /\ directHomography' = direct
    /\ UNCHANGED << transformMatrix, transformObj >>
    /\ pc' = "pa_final"

FallBackToDirect(direct) ==
    /\ directHomography' = direct
    /\ transformMatrix' = direct
    /\ transformObj' = "directHomography"
    /\ pc' = "pa_final"

\* lines 99-105: the coarse affine of the perspective strategy
PaCoarseFatal(affine, direct) ==
    /\ pc = "pa_coarse"
    /\ affineMatrix' = affine
    /\ heap' = allocate(heap, {"inliersCoarse", "affineMatrix"})
    /\ IF empty(affine)
       THEN /\ paMats' = paMats
            /\ err' = [kind |-> "NoTransformation"]
            /\ pc' = "pa_catch"
       ELSE /\ paMats' = paMats \cup {"affineMatrix"}
            /\ err' = err
            /\ pc' = "pa_rematch"
    /\ UNCHANGED << call, pa, alignCalls, mats, matches, goodMatches,
                    goodMatchesRefined, homographyRefinement, directHomography,
                    affineTransform, affineRefinement, transformMatrix,
                    transformObj, result, debugUrl, warp, canvasVars,
                    outstanding, calls,
                    appVars >>

PaCoarse(affine, direct) ==
    /\ pc = "pa_coarse"
    /\ affineMatrix' = affine
    /\ IF empty(affine)
       THEN /\ heap' = allocate(heap, {"inliersCoarse", "affineMatrix",
                                       "directHomography"})
            /\ paMats' = paMats
            /\ FallBackToDirect(direct)
       ELSE /\ heap' = allocate(heap, {"inliersCoarse", "affineMatrix"})
            /\ paMats' = paMats \cup {"affineMatrix"}
            /\ pc' = "pa_rematch"
            /\ UNCHANGED << directHomography, transformMatrix, transformObj >>
    /\ UNCHANGED << call, pa, alignCalls, mats, matches, goodMatches,
                    goodMatchesRefined, homographyRefinement, affineTransform,
                    affineRefinement, err, result, debugUrl, warp, canvasVars,
                    outstanding, calls,
                    appVars >>

\* lines 106-137: warp by the coarse affine, detect and match again on the
\* warped image, the minimum-match gate of the re-match
PaRematch(knn, direct) ==
    /\ pc = "pa_rematch"
    /\ goodMatchesRefined' = ratioFilter(knn, RATIO_TEST_THRESHOLD(pa.isGreedy))
    /\ paMats' = paMats \cup {"warpedAffine", "warpedGray", "descriptorsWarped",
                              "matchesRefined"}
    /\ LET h1 == allocate(heap, {"warpedAffine", "warpedGray", "keypointsWarped",
                                 "descriptorsWarped", "maskWarped",
                                 "matchesRefined"})
       IN  IF Len(goodMatchesRefined') < MIN_MATCH_COUNT(pa.isGreedy)
           THEN /\ heap' = allocate(delete(h1, {"keypointsWarped"}),
                                    {"directHomography"})
                /\ FallBackToDirect(direct)
           ELSE /\ heap' = h1
                /\ pc' = "pa_fine"
                /\ UNCHANGED << directHomography, transformMatrix, transformObj >>
    /\ UNCHANGED << call, pa, alignCalls, mats, matches, goodMatches,
                    affineMatrix, homographyRefinement, affineTransform,
                    affineRefinement, err, result, debugUrl, warp, canvasVars,
                    outstanding, calls,
                    appVars >>

\* lines 138-169: the refinement homography and its composition with the
\* coarse affine, H_final = H_refine * H_affine
PaFine(refinement, direct) ==
    /\ pc = "pa_fine"
    /\ homographyRefinement' = refinement
    /\ LET h1 == delete(allocate(heap, {"matWarpedPts", "matBasePtsRefined",
                                        "homographyRefinement"}),
                        {"keypointsWarped"})
       IN  IF empty(refinement)
           THEN /\ heap' = allocate(h1, {"directHomography"})
                /\ paMats' = paMats \cup {"matWarpedPts", "matBasePtsRefined"}
                /\ FallBackToDirect(direct)
           ELSE /\ heap' = allocate(h1, {"affine3x3", "gemmSrc3",
                                         "combinedHomography"})
                /\ paMats' = paMats \cup {"matWarpedPts", "matBasePtsRefined",
                                          "homographyRefinement", "affine3x3"}
                /\ transformMatrix' = gemm(refinement, affine3x3Of(affineMatrix), 1)
                /\ transformObj' = "combinedHomography"
                /\ pc' = "pa_final"
                /\ UNCHANGED directHomography
    /\ UNCHANGED << call, pa, alignCalls, mats, matches, goodMatches,
                    goodMatchesRefined, affineMatrix, affineTransform,
                    affineRefinement, err, result, debugUrl, warp, canvasVars,
                    outstanding, calls,
                    appVars >>

\* lines 172-176: the first affine of the affine strategy
PaAffine(affine) ==
    /\ pc = "pa_affine"
    /\ heap' = allocate(heap, {"inliersAffine", "affineTransform"})
    /\ affineTransform' = affine
    /\ transformMatrix' = affine
    /\ transformObj' = "affineTransform"
    /\ IF empty(affine)
       THEN /\ err' = [kind |-> "NoTransformation"]
            /\ pc' = "pa_catch"
       ELSE /\ err' = err
            /\ pc' = IF pa.useRefinement THEN "pa_refine" ELSE "pa_final"
    /\ UNCHANGED << call, pa, alignCalls, paMats, mats, matches, goodMatches,
                    goodMatchesRefined, affineMatrix, homographyRefinement,
                    directHomography, affineRefinement, result, debugUrl, warp,
                    canvasVars, outstanding, calls,
                    appVars >>

\* lines 223-236: h1 = affineRefinement as 3x3, h2 = affineTransform as 3x3,
\* combinedH = h1 * h2, finalAffine = the top two rows of combinedH
composeAffinesReversed(second, first) ==
    topTwoRows(gemm(affine3x3Of(first), affine3x3Of(second), 1))

composeAffines(second, first) ==
    topTwoRows(gemm(affine3x3Of(second), affine3x3Of(first), 1))

\* lines 177-244: the refinement stage of the affine strategy
PaRefine(rowsRefined, knn, second) ==
    /\ pc = "pa_refine"
    /\ LET hasDescriptors == rowsRefined > 0
           good == IF hasDescriptors
                   THEN ratioFilter(knn, RATIO_TEST_THRESHOLD(pa.isGreedy))
                   ELSE <<>>
           enough == hasDescriptors /\ Len(good) >= MIN_MATCH_COUNT(pa.isGreedy)
           composed == enough /\ ~empty(second)
           pushed == {"warpedForRefine", "warpedGray", "descriptorsRefined"}
                     \cup (IF hasDescriptors THEN {"matchesRefined"} ELSE {})
                     \cup (IF enough
                           THEN {"matBasePtsRefined", "matTargetPtsRefined",
                                 "affineRefinement"}
                           ELSE {})
                     \cup (IF composed THEN {"h1", "h2", "combinedH"} ELSE {})
           unpushed == {"keypointsRefined", "maskRefined"}
                       \cup (IF enough THEN {"inliersRefinement"} ELSE {})
                       \cup (IF composed THEN {"gemmSrc3", "finalAffine"} ELSE {})
           h1 == allocate(heap, pushed \cup unpushed)
           h2 == IF composed THEN delete(h1, {"affineTransform"}) ELSE h1
       IN  /\ goodMatchesRefined' = good
           /\ affineRefinement' = IF enough THEN second ELSE EmptyMat
           /\ paMats' = paMats \cup pushed
           /\ heap' = delete(h2, {"keypointsRefined"})
           /\ IF composed
              THEN /\ transformMatrix' = composeAffines(second, affineTransform)
                   /\ transformObj' = "finalAffine"
              ELSE UNCHANGED << transformMatrix, transformObj >>
    /\ pc' = "pa_final"
    /\ UNCHANGED << call, pa, alignCalls, mats, matches, goodMatches,
                    affineMatrix, homographyRefinement, directHomography,
                    affineTransform, err, result, debugUrl, warp, canvasVars,
                    outstanding, calls,
                    appVars >>

\* the locals of performAlignment go out of scope when it returns or throws
DropLocals ==
    /\ matches' = <<>>
    /\ goodMatchesRefined' = <<>>
    /\ affineMatrix' = EmptyMat
    /\ homographyRefinement' = EmptyMat
    /\ directHomography' = EmptyMat
    /\ affineTransform' = EmptyMat
    /\ affineRefinement' = EmptyMat

\* lines 247-251 and the finally block on the return path
PaFinal ==
    /\ pc = "pa_final"
    /\ IF empty(transformMatrix)
       THEN /\ err' = [kind |-> "NoFinalTransformation"]
            /\ pc' = "pa_catch"
            /\ UNCHANGED << heap, alignVars >>
       ELSE /\ err' = err
            /\ pc' = returnPc
            /\ heap' = paFinally(heap, paMats)
            /\ DropLocals
            /\ UNCHANGED << goodMatches, transformMatrix, transformObj >>
    /\ UNCHANGED << call, pa, alignCalls, paMats, mats, result,
                    debugUrl, warp, canvasVars, outstanding, calls,
                    appVars >>

\* lines 253-261: the catch block, then the finally block, then the rethrow
PaCatch ==
    /\ pc = "pa_catch"
    /\ heap' = paFinally(deleteIfLive(heap, {"keypointsBase", "keypointsTarget"}),
                         paMats)
    /\ pc' = catchPc
    /\ DropLocals
    /\ goodMatches' = <<>>
    /\ transformMatrix' = EmptyMat
    /\ transformObj' = "none"
    /\ UNCHANGED << call, pa, alignCalls, paMats, mats, err, result,
                    debugUrl, warp, canvasVars, outstanding, calls,
                    appVars >>

\* ------------------------------------------------------------------------
\* processImageLocally
\* ------------------------------------------------------------------------
\* outcomes of lines 277-286: OpenCV missing, no 2d context for the master
\* or for the target canvas, an empty Mat, or both images loaded
LoadOutcomes == {"noCv", "firstCtx", "secondCtx", "emptyMat", "ok"}

\* native objects allocated and pushed by the two loadImageToMat calls
loaded(outcome, first, second) ==
    IF outcome \in {"noCv", "firstCtx", "decodeRejected"} THEN {}
    ELSE IF outcome = "secondCtx" THEN {first}
    ELSE {first, second}

loadError(outcome) ==
    IF outcome = "noCv" THEN [kind |-> "OpenCvNotLoaded"]
    ELSE IF outcome = "decodeRejected" THEN [kind |-> "DecodeFailed"]
    ELSE IF outcome \in {"firstCtx", "secondCtx"} THEN [kind |-> "NoCanvasContext"]
    ELSE [kind |-> "LoadFailed"]

\* a call of the exported function processImageLocally
StartProcessImageLocally(greedy, refinement, perspective, master) ==
    /\ pc \in {"idle", "settled"}
    /\ calls < MaxCalls
    /\ calls' = calls + 1
    /\ outstanding' = outstanding + Cardinality(heap.live)
    /\ call' = [name |-> "processImageLocally", isGreedyMode |-> greedy,
                isRefinementEnabled |-> refinement,
                isPerspectiveCorrectionEnabled |-> perspective,
                isMaster |-> master, processedImageUrl |-> "none"]
    /\ FreshLocals
    /\ pc' = "pil_load"
    /\ UNCHANGED appVars

\* lines 277-286
PilLoad(outcome) ==
    /\ pc = "pil_load"
    /\ heap' = allocate(heap, loaded(outcome, "masterMat", "targetMat"))
    /\ mats' = mats \cup loaded(outcome, "masterMat", "targetMat")
    /\ IF outcome = "ok"
       THEN /\ pc' = IF call.isMaster THEN "pil_master" ELSE "pil_align"
            /\ err' = err
       ELSE /\ pc' = "pil_catch"
            /\ err' = loadError(outcome)
    /\ UNCHANGED << call, pa, alignCalls, paMats, alignVars, result, debugUrl,
                    warp, canvasVars, outstanding, calls,
                    appVars >>

\* lines 292-294: the identity transform of the master-vs-master case
identityTransformAlways2x3(perspective) == Identity2x3

identityTransform(perspective) ==
    IF perspective THEN Identity3x3 ELSE Identity2x3

\* lines 291-299: the master itself is not aligned
PilMaster ==
    /\ pc = "pil_master"
    /\ transformMatrix' = identityTransform(call.isPerspectiveCorrectionEnabled)
    /\ transformObj' = "identity"
    /\ heap' = allocate(heap, {"identity"})
    /\ mats' = mats \cup {"identity"}
    /\ debugUrl' = "placeholder1x1"
    /\ pc' = "pil_warp"
    /\ UNCHANGED << call, pa, alignCalls, paMats, matches, goodMatches,
                    goodMatchesRefined, affineMatrix, homographyRefinement,
                    directHomography, affineTransform, affineRefinement, err,
                    result, warp, canvasVars, outstanding, calls,
                    appVars >>

\* lines 301-307: the arguments processImageLocally passes to performAlignment
alignArgsSwapped(c) ==
    [isGreedy |-> c.isGreedyMode,
     useRefinement |-> c.isPerspectiveCorrectionEnabled,
     usePerspectiveCorrection |-> c.isRefinementEnabled]

alignArgs(c) ==
    [isGreedy |-> c.isGreedyMode,
     useRefinement |-> c.isRefinementEnabled,
     usePerspectiveCorrection |-> c.isPerspectiveCorrectionEnabled]

\* line 301: the call of performAlignment
PilAlign ==
    /\ pc = "pil_align"
    /\ pa' = alignArgs(call)
    /\ alignCalls' = alignCalls + 1
    /\ pc' = "pa_detect"
    /\ UNCHANGED << call, heap, paMats, mats, alignVars, err, result, debugUrl,
                    warp, canvasVars, outstanding, calls,
                    appVars >>

\* lines 309-321: the diagnostic image; drawMatches or imshow may throw
PilDebug(throws) ==
    /\ pc = "pil_debug"
    /\ mats' = mats \cup {transformObj, "debugMat"}
    /\ IF throws
       THEN /\ heap' = allocate(heap, {"debugMat", "goodMatchesVec"})
            /\ err' = [kind |-> "RenderFailed"]
            /\ pc' = "pil_catch"
            /\ UNCHANGED debugUrl
       ELSE /\ heap' = delete(allocate(heap, {"debugMat", "goodMatchesVec"}),
                              {"keypointsBase", "keypointsTarget"})
            /\ err' = err
            /\ debugUrl' = "matches"
            /\ pc' = "pil_warp"
    /\ UNCHANGED << call, pa, alignCalls, paMats, alignVars, result, warp,
                    canvasVars, outstanding, calls,
                    appVars >>

\* lines 328-332: the warp chosen for the final transform
warpOf(perspective) ==
    IF perspective THEN "warpPerspective" ELSE "warpAffine"

\* finally { if (goodMatchesVec) goodMatchesVec.delete(); mats.forEach(...) }
pilFinally(h, ms) ==
    deleteIfLive(delete(h, {"goodMatchesVec"} \cap (h.live \cup h.deleted)), ms)

\* lines 325-361 and the finally block: warp, canvas, pad, rasterize, resolve
PilWarp(dims, throws) ==
    /\ pc = "pil_warp"
    /\ warp' = warpOf(call.isPerspectiveCorrectionEnabled)
    /\ IF throws = "warp"
       THEN /\ mats' = mats \cup {"warpedTarget"}
            /\ heap' = allocate(heap, {"warpedTarget"})
            /\ err' = [kind |-> "RenderFailed"]
            /\ pc' = "pil_catch"
            /\ UNCHANGED << result, canvasVars >>
       ELSE /\ warpedWidth' = dims[1]
            /\ warpedHeight' = dims[2]
            /\ finalWidth' = canvasSize(dims[1], dims[2]).finalWidth
            /\ finalHeight' = canvasSize(dims[1], dims[2]).finalHeight
            /\ border' = borderOf(finalWidth', finalHeight', dims[1], dims[2])
            /\ mats' = mats \cup {"warpedTarget", "paddedMat"}
            /\ IF throws = "raster"
               THEN /\ heap' = allocate(heap, {"warpedTarget", "paddedMat"})
                    /\ err' = [kind |-> "RenderFailed"]
                    /\ pc' = "pil_catch"
                    /\ UNCHANGED result
               ELSE /\ heap' = pilFinally(allocate(heap, {"warpedTarget",
                                                          "paddedMat"}), mats')
                    /\ err' = err
                    /\ result' = [state |-> "resolved", value |-> "processed"]
                    /\ pc' = "settled"
    /\ UNCHANGED << call, pa, alignCalls, paMats, alignVars, debugUrl,
                    outstanding, calls,
                    appVars >>

\* lines 363-368: reject(error), then the finally block
PilCatch ==
    /\ pc = "pil_catch"
    /\ result' = [state |-> "rejected", value |-> err.kind]
    /\ heap' = pilFinally(heap, mats)
    /\ pc' = "settled"
    /\ UNCHANGED << call, pa, alignCalls, paMats, mats, alignVars, err,
                    debugUrl, warp, canvasVars, outstanding, calls,
                    appVars >>

\* ------------------------------------------------------------------------
\* refineWithGoldenTemplate
\* ------------------------------------------------------------------------
RefineLoadOutcomes == {"decodeRejected", "firstCtx", "secondCtx", "emptyMat", "ok"}

\* a call of the exported function refineWithGoldenTemplate
StartRefineWithGoldenTemplate(url) ==
    /\ pc \in {"idle", "settled"}
    /\ calls < MaxCalls
    /\ calls' = calls + 1
    /\ outstanding' = outstanding + Cardinality(heap.live)
    /\ call' = [name |-> "refineWithGoldenTemplate", isGreedyMode |-> FALSE,
                isRefinementEnabled |-> FALSE,
                isPerspectiveCorrectionEnabled |-> FALSE,
                isMaster |-> FALSE, processedImageUrl |-> url]
    /\ FreshLocals
    /\ pc' = "rgt_load"
    /\ UNCHANGED appVars

\* line 390: performAlignment(templateMat, targetMat, false, true, false)
refineArgs == [isGreedy |-> FALSE, useRefinement |-> TRUE,
               usePerspectiveCorrection |-> FALSE]

\* lines 379-390: decode the processed image, load both images, align
RgtLoad(outcome) ==
    /\ pc = "rgt_load"
    /\ heap' = allocate(heap, loaded(outcome, "templateMat", "targetMat"))
    /\ mats' = mats \cup loaded(outcome, "templateMat", "targetMat")
    /\ IF outcome = "ok"
       THEN /\ pa' = refineArgs
            /\ alignCalls' = alignCalls + 1
            /\ pc' = "pa_detect"
            /\ err' = err
       ELSE /\ pc' = "rgt_catch"
            /\ err' = loadError(outcome)
            /\ UNCHANGED << pa, alignCalls >>
    /\ UNCHANGED << call, paMats, alignVars, result, debugUrl, warp,
                    canvasVars, outstanding, calls,
                    appVars >>

\* finally { mats.forEach(delete if live) }
rgtFinally(h, ms) == deleteIfLive(h, ms)

\* lines 391-405 and the finally block: warp into the template's canvas
RgtWarp(throws) ==
    /\ pc = "rgt_warp"
    /\ mats' = mats \cup {transformObj, "warpedMat"}
    /\ warp' = "warpAffine"
    /\ IF throws
       THEN /\ heap' = allocate(heap, {"warpedMat"})
            /\ err' = [kind |-> "RenderFailed"]
            /\ pc' = "rgt_catch"
            /\ UNCHANGED result
       ELSE /\ heap' = rgtFinally(delete(allocate(heap, {"warpedMat"}),
                                         {"keypointsBase", "keypointsTarget"}),
                                  mats')
            /\ err' = err
            /\ result' = [state |-> "resolved", value |-> "refined"]
            /\ pc' = "settled"
    /\ UNCHANGED << call, pa, alignCalls, paMats, alignVars, debugUrl,
                    canvasVars, outstanding, calls,
                    appVars >>

\* lines 406-411: the catch block returns the input URL, then the finally
RgtCatchRethrows ==
    /\ pc = "rgt_catch"
    /\ result' = [state |-> "rejected", value |-> err.kind]
    /\ heap' = rgtFinally(heap, mats)
    /\ pc' = "settled"
    /\ UNCHANGED << call, pa, alignCalls, paMats, mats, alignVars, err,
                    debugUrl, warp, canvasVars, outstanding, calls,
                    appVars >>

RgtCatch ==
    /\ pc = "rgt_catch"
    /\ result' = [state |-> "resolved", value |-> call.processedImageUrl]
    /\ heap' = rgtFinally(heap, mats)
    /\ pc' = "settled"
    /\ UNCHANGED << call, pa, alignCalls, paMats, mats, alignVars, err,
                    debugUrl, warp, canvasVars, outstanding, calls,
                    appVars >>

\* ------------------------------------------------------------------------
\* The service specification: a sequence of calls, one at a time
\* ------------------------------------------------------------------------
DescriptorRows == {0, 1}

Next ==
    \/ \E g \in BOOLEAN, r \in BOOLEAN, p \in BOOLEAN, m \in BOOLEAN :
          StartProcessImageLocally(g, r, p, m)
    \/ \E o \in LoadOutcomes : PilLoad(o)
    \/ PilMaster
    \/ PilAlign
    \/ \E t \in BOOLEAN : PilDebug(t)
    \/ \E d \in ImageDims, t \in {"none", "warp", "raster"} : PilWarp(d, t)
    \/ PilCatch
    \/ \E u \in Urls : StartRefineWithGoldenTemplate(u)
    \/ \E o \in RefineLoadOutcomes : RgtLoad(o)
    \/ \E t \in BOOLEAN : RgtWarp(t)
    \/ RgtCatch
    \/ \E rb \in DescriptorRows, rt \in DescriptorRows : PaDetect(rb, rt)
    \/ \E k \in KnnResults : PaMatch(k)
    \/ \E a \in AffineFits, d \in HomographyFits : PaCoarse(a, d)
    \/ \E k \in KnnResults, d \in HomographyFits : PaRematch(k, d)
    \/ \E h \in HomographyFits, d \in HomographyFits : PaFine(h, d)
    \/ \E a \in AffineFits : PaAffine(a)
    \/ \E rr \in DescriptorRows, k \in KnnResults, a \in AffineFits :
          PaRefine(rr, k, a)
    \/ PaFinal
    \/ PaCatch

Spec == Init /\ [][Next]_vars

\* ------------------------------------------------------------------------
\* The canvas specification: lines 334-353 on every warped size
\* ------------------------------------------------------------------------
InitCanvas ==
    /\ pc = "canvas"
    /\ call = NoCall
    /\ pa = NoParams
    /\ alignCalls = 0
    /\ heap = EmptyHeap
    /\ paMats = {}
    /\ mats = {}
    /\ matches = <<>>
    /\ goodMatches = <<>>
    /\ goodMatchesRefined = <<>>
    /\ affineMatrix = EmptyMat
    /\ homographyRefinement = EmptyMat
    /\ directHomography = EmptyMat
    /\ affineTransform = EmptyMat
    /\ affineRefinement = EmptyMat
    /\ transformMatrix = EmptyMat
    /\ transformObj = "none"
    /\ err = NoError
    /\ result = Pending
    /\ debugUrl = "none"
    /\ warp = "none"
    /\ warpedWidth \in 1..MaxDim
    /\ warpedHeight \in 1..MaxDim
    /\ finalWidth = 0
    /\ finalHeight = 0
    /\ border = NoBorder
    /\ outstanding = 0
    /\ calls = 0
    /\ \E ratio \in AspectRatios : AppState(<<>>, NoId, TRUE, FALSE, 1, ratio)

ComputeCanvas ==
    /\ pc = "canvas"
    /\ finalWidth' = canvasSize(warpedWidth, warpedHeight).finalWidth
    /\ finalHeight' = canvasSize(warpedWidth, warpedHeight).finalHeight
    /\ border' = borderOf(finalWidth', finalHeight', warpedWidth, warpedHeight)
    /\ pc' = "canvas_done"
    /\ UNCHANGED << call, pa, alignCalls, heap, paMats, mats, alignVars, err,
                    result, debugUrl, warp, warpedWidth, warpedHeight,
                    outstanding, calls,
                    appVars >>

NextCanvas == ComputeCanvas

SpecCanvas == InitCanvas /\ [][NextCanvas]_vars

\* lines 325-353 with the processed master as masterMat: the target is
\* warped into the padded master's size (dsize, line 326), and the canvas
\* is computed from that size
AlignAgainstProcessed ==
    /\ pc = "canvas_done"
    /\ warpedWidth' = finalWidth
    /\ warpedHeight' = finalHeight
    /\ finalWidth' = canvasSize(warpedWidth', warpedHeight').finalWidth
    /\ finalHeight' = canvasSize(warpedWidth', warpedHeight').finalHeight
    /\ border' = borderOf(finalWidth', finalHeight', warpedWidth', warpedHeight')
    /\ pc' = "canvas_again"
    /\ UNCHANGED << call, pa, alignCalls, heap, paMats, mats, alignVars, err,
                    result, debugUrl, warp, outstanding, calls,
                    appVars >>

NextRecanvas == ComputeCanvas \/ AlignAgainstProcessed

SpecRecanvas == InitCanvas /\ [][NextRecanvas]_vars

\* ------------------------------------------------------------------------
\* The batch specification: one run of handleProcessImages (App.tsx)
\* ------------------------------------------------------------------------
\* the variables of the image processor service; a batch run sees the
\* service only through the promises its calls return
serviceVars == << pc, call, pa, alignCalls, heap, paMats, mats, alignVars, err,
                  result, debugUrl, warp, canvasVars, outstanding, calls >>

\* n uploaded files with ids 1..n, each flagged or not for perspective
UploadsOf(n) ==
    { [i \in 1..n |-> [id |-> i, needsPerspectiveCorrection |-> flags[i]]] :
        flags \in [1..n -> BOOLEAN] }

Uploads == UNION { UploadsOf(n) : n \in 0..MaxFiles }

\* ids and lookups on ProcessedFile / UploadedFile lists
Ids(list) == { list[k].id : k \in 1..Len(list) }

\* list.find(f => f.id === id), for a list that holds the id
find(list, id) ==
    list[CHOOSE k \in 1..Len(list) :
            /\ list[k].id = id
            /\ \A j \in 1..(k - 1) : list[j].id # id]

\* uploadedFiles.filter(f => !f.needsPerspectiveCorrection)
standardFiles ==
    SelectSeq(closure.uploadedFiles, LAMBDA f : ~f.needsPerspectiveCorrection)

\* uploadedFiles.filter(f => f.needsPerspectiveCorrection && f.id !== masterFileId)
perspectiveFiles ==
    SelectSeq(closure.uploadedFiles,
              LAMBDA f : /\ f.needsPerspectiveCorrection
                         /\ f.id # closure.masterFileId)

\* the data URL processImageLocally resolves with
alignedUrl(target, masterImage, perspective) ==
    [of |-> target, master |-> masterImage, perspective |-> perspective,
     refined |-> FALSE, generated |-> FALSE, diagnostic |-> FALSE]

\* the diagnostic data URL processImageLocally resolves with
matchesUrl(target, masterImage, perspective) ==
    [alignedUrl(target, masterImage, perspective) EXCEPT !.diagnostic = TRUE]

\* how a processImageLocally promise settles
PilOutcomes == {"resolved", "rejected"}

\* how refineWithGoldenTemplate resolves: with the re-aligned image, or
\* from its catch block with the URL it was given
RgtOutcomes == {"refined", "returnedInput"}

refinedUrl(url, outcome) ==
    IF outcome = "refined" THEN [url EXCEPT !.refined = TRUE] ELSE url

\* one entry of the error message
errorEntry(kind, of) == [kind |-> kind, of |-> of]

\* setError(prev => (prev ? prev + ' | ' : '') + message)
appendError(prev, entry) == Append(prev, entry)

\* one service call of the run
logEntry(fn, target, masterImage, perspective, outcome) ==
    [fn |-> fn, target |-> target, master |-> masterImage,
     perspective |-> perspective, outcome |-> outcome]

InitBatch ==
    /\ pc = "batch"
    /\ call = NoCall
    /\ pa = NoParams
    /\ alignCalls = 0
    /\ heap = EmptyHeap
    /\ paMats = {}
    /\ mats = {}
    /\ matches = <<>>
    /\ goodMatches = <<>>
    /\ goodMatchesRefined = <<>>
    /\ affineMatrix = EmptyMat
    /\ homographyRefinement = EmptyMat
    /\ directHomography = EmptyMat
    /\ affineTransform = EmptyMat
    /\ affineRefinement = EmptyMat
    /\ transformMatrix = EmptyMat
    /\ transformObj = "none"
    /\ err = NoError
    /\ result = Pending
    /\ debugUrl = "none"
    /\ warp = "none"
    /\ warpedWidth = 0
    /\ warpedHeight = 0
    /\ finalWidth = 0
    /\ finalHeight = 0
    /\ border = NoBorder
    /\ outstanding = 0
    /\ calls = 0
    /\ \E files \in Uploads, ensemble \in BOOLEAN, ai \in BOOLEAN,
          n \in 0..MaxVariations, ratio \in AspectRatios :
          \E master \in Ids(files) \cup {NoId} :
              AppState(files, master, ensemble, ai, n, ratio)

\* lines 208-243: the guard, the resets and the lookup of the master file
HandleProcessImages ==
    /\ bpc = "ready"
    /\ IF masterFileId = NoId \/ Len(uploadedFiles) < 1
       THEN /\ error' = << errorEntry("SelectMaster", NoId) >>
            /\ bpc' = "refused"
            /\ UNCHANGED << isProcessing, processedFiles, processingStatus, idx >>
       ELSE IF masterFileId \notin Ids(uploadedFiles)
       THEN /\ error' = << errorEntry("MasterNotFound", NoId) >>
            /\ isProcessing' = FALSE
            /\ processedFiles' = <<>>
            /\ processingStatus' = "Initializing"
            /\ bpc' = "aborted"
            /\ UNCHANGED idx
       ELSE /\ isProcessing' = TRUE
            /\ error' = <<>>
            /\ processedFiles' = <<>>
            /\ processingStatus' = "Stage1"
            /\ bpc' = "stage1"
            /\ idx' = 1
    /\ UNCHANGED << serviceVars, settingVars, uiVars, resetAt,
                    stage1Results, refinedResults,
                    stage2Results, finalResults, variations, alignLog >>
    /\ yields' = IF masterFileId = NoId \/ masterFileId \notin Ids(uploadedFiles)
                 THEN yields ELSE yields + 1
    /\ closure' = [uploadedFiles |-> uploadedFiles,
                    masterFileId |-> masterFileId]

\* lines 246-261: one iteration of the loop over the standard files
Stage1FileFailFast(outcome) ==
    /\ bpc = "stage1"
    /\ idx <= Len(standardFiles)
    /\ LET targetFile == standardFiles[idx]
       IN  /\ alignLog' = Append(alignLog,
                   logEntry("processImageLocally", targetFile.id, "raw",
                            FALSE, outcome))
           /\ IF outcome = "resolved"
              THEN /\ stage1Results' = Append(stage1Results,
                          [id |-> targetFile.id,
                           processedUrl |-> alignedUrl(targetFile.id, "raw", FALSE),
                           debugUrl |-> matchesUrl(targetFile.id, "raw", FALSE)])
                   /\ processedFiles' = stage1Results'
                   /\ idx' = idx + 1
                   /\ UNCHANGED << error, bpc, isProcessing >>
              ELSE /\ error' = appendError(error,
                                           errorEntry("file", targetFile.id))
                   /\ bpc' = "aborted"
                   /\ isProcessing' = FALSE
                   /\ UNCHANGED << stage1Results, processedFiles, idx >>
    /\ UNCHANGED << serviceVars, settingVars, uiVars, resetAt, closure,
                    processingStatus,
                    refinedResults, stage2Results, finalResults, variations >>
    /\ yields' = yields + 1

Stage1File(outcome) ==
    /\ bpc = "stage1"
    /\ idx <= Len(standardFiles)
    /\ LET targetFile == standardFiles[idx]
       IN  /\ alignLog' = Append(alignLog,
                   logEntry("processImageLocally", targetFile.id, "raw",
                            FALSE, outcome))
           /\ IF outcome = "resolved"
              THEN /\ stage1Results' = Append(stage1Results,
                          [id |-> targetFile.id,
                           processedUrl |-> alignedUrl(targetFile.id, "raw", FALSE),
                           debugUrl |-> matchesUrl(targetFile.id, "raw", FALSE)])
                   /\ processedFiles' = stage1Results'
                   /\ UNCHANGED error
              ELSE /\ error' = appendError(error,
                                           errorEntry("file", targetFile.id))
                   /\ UNCHANGED << stage1Results, processedFiles >>
    /\ idx' = idx + 1
    /\ UNCHANGED << serviceVars, settingVars, uiVars, resetAt, closure,
                    isProcessing, processingStatus,
                    bpc, refinedResults, stage2Results, finalResults,
                    variations >>
    /\ yields' = yields + 1

\* results.filter(f => f.id !== masterFileId)
otherFilesWithMaster(results) == results

otherFiles(results) ==
    SelectSeq(results, LAMBDA f : f.id # closure.masterFileId)

\* lines 262-274: the end of stage 1 and the entry of the ensemble pass
\* outcomes of `await dataUrlToImageElement(url)`; the await is outside
\* every try block of handleProcessImages
DecodeOutcomes == {"decoded", "rejected"}

Stage2Begin(decode) ==
    /\ bpc = "stage1"
    /\ idx > Len(standardFiles)
    /\ stage2Results' = stage1Results
    /\ IF /\ isEnsembleCorrectionEnabled
          /\ Len(stage1Results) > 1
          /\ closure.masterFileId \in Ids(stage1Results)
       THEN IF decode = "rejected"
            THEN /\ processingStatus' = "Stage2"
                 /\ bpc' = "hung"
                 /\ UNCHANGED refinedResults
            ELSE /\ refinedResults' =
                       << find(stage1Results, closure.masterFileId) >>
                 /\ processingStatus' = "Stage2"
                 /\ bpc' = "stage2"
       ELSE /\ decode = "decoded"
            /\ processingStatus' =
                  IF isEnsembleCorrectionEnabled /\ Len(stage1Results) > 1
                  THEN "Stage2" ELSE processingStatus
            /\ bpc' = "stage3begin"
            /\ UNCHANGED refinedResults
    /\ idx' = 1
    /\ UNCHANGED << serviceVars, settingVars, uiVars, resetAt, closure,
                    processedFiles, error,
                    isProcessing, stage1Results, finalResults, variations,
                    alignLog >>
    /\ yields' = IF isEnsembleCorrectionEnabled /\ Len(stage1Results) > 1
                 THEN yields + 1 ELSE yields

\* the ensemble loop without its await yieldToMain()
Stage2FileNoYield(outcome) ==
    /\ bpc = "stage2"
    /\ idx <= Len(otherFiles(stage1Results))
    /\ LET fileToRefine == otherFiles(stage1Results)[idx]
       IN  /\ alignLog' = Append(alignLog,
                   logEntry("refineWithGoldenTemplate", fileToRefine.id,
                            "processed", FALSE, outcome))
           /\ refinedResults' = Append(refinedResults,
                   [fileToRefine EXCEPT
                       !.processedUrl = refinedUrl(@, outcome)])
    /\ idx' = idx + 1
    /\ UNCHANGED << serviceVars, settingVars, uiVars, resetAt, closure,
                    processedFiles, error,
                    isProcessing, processingStatus, bpc, stage1Results,
                    stage2Results, finalResults, variations >>
    /\ yields' = yields

\* lines 276-280: one iteration of the ensemble loop
Stage2File(outcome) ==
    /\ bpc = "stage2"
    /\ idx <= Len(otherFiles(stage1Results))
    /\ LET fileToRefine == otherFiles(stage1Results)[idx]
       IN  /\ alignLog' = Append(alignLog,
                   logEntry("refineWithGoldenTemplate", fileToRefine.id,
                            "processed", FALSE, outcome))
           /\ refinedResults' = Append(refinedResults,
                   [fileToRefine EXCEPT
                       !.processedUrl = refinedUrl(@, outcome)])
    /\ idx' = idx + 1
    /\ UNCHANGED << serviceVars, settingVars, uiVars, resetAt, closure,
                    processedFiles, error,
                    isProcessing, processingStatus, bpc, stage1Results,
                    stage2Results, finalResults, variations >>
    /\ yields' = yields + 1

\* lines 281-282: the ensemble pass publishes its results
Stage2End ==
    /\ bpc = "stage2"
    /\ idx > Len(otherFiles(stage1Results))
    /\ stage2Results' = refinedResults
    /\ processedFiles' = refinedResults
    /\ bpc' = "stage3begin"
    /\ idx' = 1
    /\ UNCHANGED << serviceVars, settingVars, uiVars, resetAt, closure, yields,
                    error, isProcessing,
                    processingStatus, stage1Results, refinedResults,
                    finalResults, variations, alignLog >>

\* the master image the perspective files are aligned against:
\* processedMasterElement, decoded from the master's entry of stage2Results
stage3MasterImageRaw == "raw"

stage3MasterImage == "processed"

\* lines 285-299: the entry of the perspective stage
Stage3Begin(decode) ==
    /\ bpc = "stage3begin"
    /\ finalResults' = stage2Results
    /\ IF Len(perspectiveFiles) > 0
       THEN IF closure.masterFileId \notin Ids(stage2Results)
            THEN /\ decode = "decoded"
                 /\ error' = << errorEntry("ProcessedMasterMissing", NoId) >>
                 /\ isProcessing' = FALSE
                 /\ processingStatus' = "Stage3"
                 /\ bpc' = "aborted"
            ELSE /\ processingStatus' = "Stage3"
                 /\ bpc' = IF decode = "rejected" THEN "hung" ELSE "stage3"
                 /\ UNCHANGED << error, isProcessing >>
       ELSE /\ decode = "decoded"
            /\ bpc' = "stage4begin"
            /\ UNCHANGED << error, isProcessing, processingStatus >>
    /\ idx' = 1
    /\ UNCHANGED << serviceVars, settingVars, uiVars, resetAt, closure,
                    processedFiles, stage1Results,
                    refinedResults, stage2Results, variations, alignLog >>
    /\ yields' = IF Len(perspectiveFiles) > 0 THEN yields + 1 ELSE yields

\* lines 301-317: one iteration of the loop over the perspective files
Stage3File(outcome, refine) ==
    /\ bpc = "stage3"
    /\ idx <= Len(perspectiveFiles)
    /\ LET targetFile == perspectiveFiles[idx]
           processedUrl == alignedUrl(targetFile.id, stage3MasterImage, TRUE)
           aligned == logEntry("processImageLocally", targetFile.id,
                               stage3MasterImage, TRUE, outcome)
           refinedCall == logEntry("refineWithGoldenTemplate", targetFile.id,
                                   "processed", FALSE, refine)
       IN  IF outcome = "resolved"
           THEN /\ alignLog' = alignLog \o << aligned, refinedCall >>
                /\ finalResults' = Append(finalResults,
                       [id |-> targetFile.id,
                        processedUrl |-> refinedUrl(processedUrl, refine),
                        debugUrl |-> matchesUrl(targetFile.id,
                                                stage3MasterImage, TRUE)])
                /\ processedFiles' = finalResults'
                /\ UNCHANGED error
           ELSE /\ refine = "returnedInput"
                /\ alignLog' = Append(alignLog, aligned)
                /\ error' = appendError(error,
                                        errorEntry("file", targetFile.id))
                /\ UNCHANGED << finalResults, processedFiles >>
    /\ idx' = idx + 1
    /\ UNCHANGED << serviceVars, settingVars, uiVars, resetAt, closure,
                    isProcessing, processingStatus,
                    bpc, stage1Results, refinedResults, stage2Results,
                    variations >>
    /\ yields' = yields + 1

\* line 318-319: the loop over the perspective files is over
Stage3End ==
    /\ bpc = "stage3"
    /\ idx > Len(perspectiveFiles)
    /\ bpc' = "stage4begin"
    /\ UNCHANGED << serviceVars, settingVars, uiVars, resetAt, closure, yields,
                    processedFiles, error,
                    isProcessing, processingStatus, idx, stage1Results,
                    refinedResults, stage2Results, finalResults, variations,
                    alignLog >>

\* id of the i-th AI variation
AiVarId(i) == MaxFiles + i

\* an async callback of the map at line 334, run up to its first await
startedTask(i) == [state |-> "generating", refine |-> "none"]

\* lines 321-342: the entry of the AI stage; Array.map calls every callback,
\* and each runs synchronously up to `await generateVariation(...)`
Stage4Begin(decode) ==
    /\ bpc = "stage4begin"
    /\ IF isAiVariationsEnabled /\ numVariations > 0
       THEN IF closure.masterFileId \notin Ids(finalResults)
            THEN /\ decode = "decoded"
                 /\ error' = << errorEntry("ProcessedMasterMissing", NoId) >>
                 /\ isProcessing' = FALSE
                 /\ processingStatus' = "Stage4"
                 /\ bpc' = "aborted"
                 /\ UNCHANGED variations
            ELSE IF decode = "rejected"
                 THEN /\ processingStatus' = "Stage4"
                      /\ bpc' = "hung"
                      /\ UNCHANGED << error, isProcessing, variations >>
                 ELSE /\ variations' =
                            [i \in 1..numVariations |-> startedTask(i)]
                      /\ processingStatus' = "Stage4"
                      /\ bpc' = "stage4"
                      /\ UNCHANGED << error, isProcessing >>
       ELSE /\ decode = "decoded"
            /\ bpc' = "finish"
            /\ UNCHANGED << error, isProcessing, processingStatus, variations >>
    /\ UNCHANGED << serviceVars, settingVars, uiVars, resetAt, closure,
                    processedFiles, idx,
                    stage1Results, refinedResults, stage2Results, finalResults,
                    alignLog >>
    /\ yields' = IF isAiVariationsEnabled /\ numVariations > 0
                 THEN yields + 1 ELSE yields

\* lines 342 and 353-373: generateVariation of task i settles
VariationGenerated(i, outcome) ==
    /\ bpc = "stage4"
    /\ i \in 1..Len(variations)
    /\ variations[i].state = "generating"
    /\ IF outcome = "resolved"
       THEN /\ variations' = [variations EXCEPT ![i].state = "refining"]
            /\ UNCHANGED error
       ELSE /\ variations' = [variations EXCEPT ![i].state = "null"]
            /\ error' = appendError(error, errorEntry("variation", i))
    /\ UNCHANGED << serviceVars, settingVars, uiVars, resetAt, closure, yields,
                    processedFiles, isProcessing,
                    processingStatus, bpc, idx, stage1Results, refinedResults,
                    stage2Results, finalResults, alignLog >>

\* lines 345-352: refineWithGoldenTemplate of task i resolves
VariationRefined(i, refine) ==
    /\ bpc = "stage4"
    /\ i \in 1..Len(variations)
    /\ variations[i].state = "refining"
    /\ variations' = [variations EXCEPT ![i] =
                          [state |-> "artifact", refine |-> refine]]
    /\ UNCHANGED << serviceVars, settingVars, uiVars, resetAt, closure, yields,
                    processedFiles, error,
                    isProcessing, processingStatus, bpc, idx, stage1Results,
                    refinedResults, stage2Results, finalResults, alignLog >>

\* the data URL generateVariation resolves with
generatedUrl(i) ==
    [of |-> AiVarId(i), master |-> "none", perspective |-> FALSE,
     refined |-> FALSE, generated |-> TRUE, diagnostic |-> FALSE]

\* `return null` of a failed task
NullVariation ==
    [id |-> NoId, processedUrl |-> generatedUrl(0), debugUrl |-> generatedUrl(0)]

\* the value the promise of task i is fulfilled with
promiseValue(i) ==
    IF variations[i].state = "artifact"
    THEN [id |-> AiVarId(i),
          processedUrl |-> refinedUrl(generatedUrl(i), variations[i].refine),
          debugUrl |-> generatedUrl(i)]
    ELSE NullVariation

\* (await Promise.all(variationPromises)).filter(v => v !== null)
newVariationsUnfiltered ==
    [i \in 1..Len(variations) |-> promiseValue(i)]

newVariations ==
    SelectSeq([i \in 1..Len(variations) |-> promiseValue(i)],
              LAMBDA v : v # NullVariation)

\* lines 376-383: every promise is fulfilled, Promise.all resolves
Join ==
    /\ bpc = "stage4"
    /\ \A i \in 1..Len(variations) : variations[i].state \in {"artifact", "null"}
    /\ finalResults' = finalResults \o newVariations
    /\ processedFiles' = finalResults'
    /\ bpc' = "finish"
    /\ UNCHANGED << serviceVars, settingVars, uiVars, resetAt, closure,
                    error, isProcessing,
                    processingStatus, idx, stage1Results, refinedResults,
                    stage2Results, variations, alignLog >>
    /\ yields' = yields + 1

\* lines 386-388
Finish ==
    /\ bpc = "finish"
    /\ processedFiles' = finalResults
    /\ isProcessing' = FALSE
    /\ processingStatus' = "Processing Complete"
    /\ bpc' = "done"
    /\ UNCHANGED << serviceVars, settingVars, uiVars, resetAt, closure, yields,
                    error, idx, stage1Results,
                    refinedResults, stage2Results, finalResults, variations,
                    alignLog >>

NextBatch ==
    \/ HandleProcessImages
    \/ \E outcome \in PilOutcomes : Stage1File(outcome)
    \/ \E decode \in DecodeOutcomes : Stage2Begin(decode)
    \/ \E outcome \in RgtOutcomes : Stage2File(outcome)
    \/ Stage2End
    \/ \E decode \in DecodeOutcomes : Stage3Begin(decode)
    \/ \E outcome \in PilOutcomes, refine \in RgtOutcomes :
           Stage3File(outcome, refine)
    \/ Stage3End
    \/ \E decode \in DecodeOutcomes : Stage4Begin(decode)
    \/ \E i \in 1..MaxVariations, outcome \in PilOutcomes :
           VariationGenerated(i, outcome)
    \/ \E i \in 1..MaxVariations, refine \in RgtOutcomes :
           VariationRefined(i, refine)
    \/ Join
    \/ Finish

SpecBatch == InitBatch /\ [][NextBatch]_vars

\* ------------------------------------------------------------------------
\* The reset specification: 'Start Over' may be clicked at any time
\* ------------------------------------------------------------------------
\* lines 492-501 and 527-534: the button is rendered while files are
\* uploaded, also during a run; the run itself is not told
ResetState ==
    /\ Len(uploadedFiles) > 0
    /\ uploadedFiles' = <<>>
    /\ masterFileId' = NoId
    /\ processedFiles' = <<>>
    /\ isProcessing' = FALSE
    /\ error' = <<>>
    /\ processingStatus' = ""
    /\ resetAt' = Len(alignLog)
    /\ UNCHANGED << serviceVars, uiVars, isEnsembleCorrectionEnabled,
                    isAiVariationsEnabled, numVariations, aspectRatio, bpc,
                    idx, stage1Results, refinedResults, stage2Results,
                    finalResults, variations, alignLog, closure, yields >>

\* the batch settings with the default aspect ratio, which neither the run
\* nor the reset reads
InitReset == InitBatch /\ aspectRatio = "9:16"

NextReset ==
    \/ NextBatch
    \/ ResetState

SpecReset == InitReset /\ [][NextReset]_vars

\* ------------------------------------------------------------------------
\* The perspective-fix specification: handlePerspectiveFix after a run
\* ------------------------------------------------------------------------
\* the files of one drop: handleFilesDrop derives each id from the file's
\* name and lastModified, which two dropped files may share
DroppedOf(n) ==
    { [i \in 1..n |-> [id |-> ids[i], needsPerspectiveCorrection |-> FALSE]] :
        ids \in [1..n -> 1..n] }

Dropped == UNION { DroppedOf(n) : n \in 1..MaxFiles }

\* the artifact stage 1 publishes for an uploaded file
stage1Artifact(f) ==
    [id |-> f.id, processedUrl |-> alignedUrl(f.id, "raw", FALSE),
     debugUrl |-> matchesUrl(f.id, "raw", FALSE)]

\* the artifact the AI stage publishes for variation i
variationArtifact(i) ==
    [id |-> AiVarId(i), processedUrl |-> refinedUrl(generatedUrl(i), "refined"),
     debugUrl |-> generatedUrl(i)]

\* the artifacts a run without ensemble correction leaves for the files
\* whose alignment succeeded, followed by the AI variations it appended
artifactsOf(files, succeeded, nVariations) ==
    LET upTo[k \in 0..Len(files)] ==
            IF k = 0 THEN <<>>
            ELSE IF k \in succeeded
                 THEN Append(upTo[k - 1], stage1Artifact(files[k]))
                 ELSE upTo[k - 1]
    IN  upTo[Len(files)] \o [i \in 1..nVariations |-> variationArtifact(i)]

InitFix ==
    /\ pc = "fix"
    /\ call = NoCall
    /\ pa = NoParams
    /\ alignCalls = 0
    /\ heap = EmptyHeap
    /\ paMats = {}
    /\ mats = {}
    /\ matches = <<>>
    /\ goodMatches = <<>>
    /\ goodMatchesRefined = <<>>
    /\ affineMatrix = EmptyMat
    /\ homographyRefinement = EmptyMat
    /\ directHomography = EmptyMat
    /\ affineTransform = EmptyMat
    /\ affineRefinement = EmptyMat
    /\ transformMatrix = EmptyMat
    /\ transformObj = "none"
    /\ err = NoError
    /\ result = Pending
    /\ debugUrl = "none"
    /\ warp = "none"
    /\ warpedWidth = 0
    /\ warpedHeight = 0
    /\ finalWidth = 0
    /\ finalHeight = 0
    /\ border = NoBorder
    /\ outstanding = 0
    /\ calls = 0
    /\ isEnsembleCorrectionEnabled = FALSE
    /\ isAiVariationsEnabled \in BOOLEAN
    /\ numVariations = 1
    /\ aspectRatio = "9:16"
    /\ uploadedFiles \in Dropped
    /\ masterFileId \in Ids(uploadedFiles)
    /\ \E succeeded \in SUBSET (1..Len(uploadedFiles)) :
          processedFiles =
              artifactsOf(uploadedFiles, succeeded,
                          IF isAiVariationsEnabled
                             /\ \E k \in succeeded :
                                   uploadedFiles[k].id = masterFileId
                          THEN numVariations ELSE 0)
    /\ error = <<>>
    /\ isProcessing = FALSE
    /\ processingStatus = "Processing Complete"
    /\ bpc = "done"
    /\ idx = 1
    /\ stage1Results = <<>>
    /\ refinedResults = <<>>
    /\ stage2Results = <<>>
    /\ finalResults = <<>>
    /\ variations = <<>>
    /\ alignLog = <<>>
    /\ closure = NoClosure
    /\ yields = 0
    /\ resetAt = -1
    /\ UiIdle

\* what handlePerspectiveFix leaves alone
fixFrame == << serviceVars, settingVars, isProcessing, processingStatus, bpc,
               idx, stage1Results, refinedResults, stage2Results, finalResults,
               variations, alignLog, closure, yields, resetAt,
               pendingDrops, viewMode, currentIndex, isPlaying, genVars >>

\* lines 392-420: the guard, the lookups, up to the first await; the
\* Previewer offers the fix for every artifact but the master's
HandlePerspectiveFix(fileId) ==
    /\ pc = "fix"
    /\ fileId \in Ids(processedFiles) \ {masterFileId}
    /\ fixingImageId = NoId
    /\ masterFileId # NoId
    /\ IF masterFileId \notin Ids(processedFiles)
       THEN /\ error' = << errorEntry("fix", fileId) >>
            /\ UNCHANGED fixingImageId
       ELSE /\ error' = <<>>
            /\ fixingImageId' = fileId
    /\ UNCHANGED << fixFrame, processedFiles, effectPending >>

\* prevFiles.map(file => file.id === fileId ? {...file, processedUrl, debugUrl} : file)
replaceArtifact(prevFiles, fileId, processedUrl, debug) ==
    [k \in 1..Len(prevFiles) |->
        IF prevFiles[k].id = fileId
        THEN [prevFiles[k] EXCEPT !.processedUrl = processedUrl,
                                  !.debugUrl = debug]
        ELSE prevFiles[k]]

\* lines 420-449: the awaited calls settle, then the finally block
PerspectiveFixSettles(outcome, refine) ==
    /\ pc = "fix"
    /\ fixingImageId # NoId
    /\ IF outcome = "resolved"
       THEN /\ processedFiles' =
                  replaceArtifact(processedFiles, fixingImageId,
                      refinedUrl(alignedUrl(fixingImageId, "processed", TRUE),
                                 refine),
                      matchesUrl(fixingImageId, "processed", TRUE))
            /\ effectPending' = TRUE
            /\ UNCHANGED error
       ELSE /\ refine = "returnedInput"
            /\ error' = << errorEntry("fix", fixingImageId) >>
            /\ UNCHANGED << processedFiles, effectPending >>
    /\ fixingImageId' = NoId
    /\ UNCHANGED fixFrame

NextFix ==
    \/ \E fileId \in 1..(MaxFiles + 1) : HandlePerspectiveFix(fileId)
    \/ \E outcome \in PilOutcomes, refine \in RgtOutcomes :
           PerspectiveFixSettles(outcome, refine)

SpecFix == InitFix /\ [][NextFix]_vars

\* ------------------------------------------------------------------------
\* The selection specification: the handlers of the upload screen
\* ------------------------------------------------------------------------
\* no service call is running; the handlers are at position p
ServiceAt(p) ==
    /\ pc = p
    /\ call = NoCall
    /\ pa = NoParams
    /\ alignCalls = 0
    /\ heap = EmptyHeap
    /\ paMats = {}
    /\ mats = {}
    /\ matches = <<>>
    /\ goodMatches = <<>>
    /\ goodMatchesRefined = <<>>
    /\ affineMatrix = EmptyMat
    /\ homographyRefinement = EmptyMat
    /\ directHomography = EmptyMat
    /\ affineTransform = EmptyMat
    /\ affineRefinement = EmptyMat
    /\ transformMatrix = EmptyMat
    /\ transformObj = "none"
    /\ err = NoError
    /\ result = Pending
    /\ debugUrl = "none"
    /\ warp = "none"
    /\ warpedWidth = 0
    /\ warpedHeight = 0
    /\ finalWidth = 0
    /\ finalHeight = 0
    /\ border = NoBorder
    /\ outstanding = 0
    /\ calls = 0

InitSelection == ServiceAt("select") /\ AppInit

\* what the handlers of the upload screen leave alone
selectionFrame == << serviceVars, isEnsembleCorrectionEnabled,
                     isAiVariationsEnabled, numVariations, aspectRatio,
                     processedFiles, isProcessing, processingStatus, bpc, idx,
                     stage1Results, refinedResults, stage2Results,
                     finalResults, variations, alignLog, closure, yields,
                     resetAt, fixingImageId, previewVars, genVars >>

\* the files of all pending drops together
pendingFiles ==
    LET upTo[k \in 0..Len(pendingDrops)] ==
            IF k = 0 THEN 0 ELSE upTo[k - 1] + Len(pendingDrops[k])
    IN  upTo[Len(pendingDrops)]

\* lines 121-137: a drop on the dropzone, which is rendered while no file
\* is uploaded (line 581); the images start decoding
HandleFilesDrop(acceptedFiles) ==
    /\ pc = "select"
    /\ Len(uploadedFiles) = 0
    /\ Len(acceptedFiles) > 0
    /\ pendingFiles + Len(acceptedFiles) <= MaxUploaded
    /\ error' = <<>>
    /\ pendingDrops' = Append(pendingDrops, acceptedFiles)
    /\ UNCHANGED << selectionFrame, uploadedFiles, masterFileId >>

\* line 137: Promise.all of a drop settles; only a fulfilled one appends
FilesDecoded(k, fulfilled) ==
    /\ pc = "select"
    /\ k \in 1..Len(pendingDrops)
    /\ uploadedFiles' = IF fulfilled THEN uploadedFiles \o pendingDrops[k]
                        ELSE uploadedFiles
    /\ pendingDrops' = [j \in 1..(Len(pendingDrops) - 1) |->
                           IF j < k THEN pendingDrops[j]
                           ELSE pendingDrops[j + 1]]
    /\ UNCHANGED << selectionFrame, masterFileId, error >>

\* onSelectMaster={setMasterFileId} (line 587): a click on a grid entry
SelectMaster(id) ==
    /\ pc = "select"
    /\ id \in Ids(uploadedFiles)
    /\ masterFileId' = id
    /\ UNCHANGED << selectionFrame, uploadedFiles, error, pendingDrops >>

\* lines 140-149; the grid shows the icon on every entry but the master's
HandleTogglePerspective(fileId) ==
    /\ pc = "select"
    /\ fileId \in Ids(uploadedFiles) \ {masterFileId}
    /\ uploadedFiles' =
          [k \in 1..Len(uploadedFiles) |->
              IF uploadedFiles[k].id = fileId
              THEN [uploadedFiles[k] EXCEPT !.needsPerspectiveCorrection = ~@]
              ELSE uploadedFiles[k]]
    /\ UNCHANGED << selectionFrame, masterFileId, error, pendingDrops >>

\* lines 159-167
HandleToggleAllPerspective(newValue) ==
    /\ pc = "select"
    /\ Len(uploadedFiles) > 0
    /\ uploadedFiles' =
          [k \in 1..Len(uploadedFiles) |->
              IF uploadedFiles[k].id # masterFileId
              THEN [uploadedFiles[k] EXCEPT
                       !.needsPerspectiveCorrection = newValue]
              ELSE uploadedFiles[k]]
    /\ UNCHANGED << selectionFrame, masterFileId, error, pendingDrops >>

\* lines 175-186
HandleDeleteUploadedFile(idToDelete) ==
    /\ pc = "select"
    /\ idToDelete \in Ids(uploadedFiles)
    /\ uploadedFiles' = SelectSeq(uploadedFiles, LAMBDA f : f.id # idToDelete)
    /\ masterFileId' = IF masterFileId = idToDelete THEN NoId ELSE masterFileId
    /\ UNCHANGED << selectionFrame, error, pendingDrops >>

NextSelection ==
    \/ \E acceptedFiles \in Uploads : HandleFilesDrop(acceptedFiles)
    \/ \E k \in 1..MaxUploaded, fulfilled \in BOOLEAN :
           FilesDecoded(k, fulfilled)
    \/ \E id \in 1..MaxFiles : SelectMaster(id)
    \/ \E fileId \in 1..MaxFiles : HandleTogglePerspective(fileId)
    \/ \E newValue \in BOOLEAN : HandleToggleAllPerspective(newValue)
    \/ \E idToDelete \in 1..MaxFiles : HandleDeleteUploadedFile(idToDelete)
    \/ ResetState

SpecSelection == InitSelection /\ [][NextSelection]_vars

\* ------------------------------------------------------------------------
\* The Previewer specification: the results screen after a run
\* ------------------------------------------------------------------------
\* the results screen right after the Previewer has mounted and rendered
\* once: its effects have not run yet
InitPreviewer ==
    /\ ServiceAt("preview")
    /\ isEnsembleCorrectionEnabled = FALSE
    /\ isAiVariationsEnabled \in BOOLEAN
    /\ numVariations = 1
    /\ aspectRatio = "9:16"
    /\ uploadedFiles \in Uploads
    /\ masterFileId \in Ids(uploadedFiles)
    /\ \E succeeded \in SUBSET (1..Len(uploadedFiles)) :
          processedFiles =
              artifactsOf(uploadedFiles, succeeded,
                          IF isAiVariationsEnabled
                             /\ \E k \in succeeded :
                                   uploadedFiles[k].id = masterFileId
                          THEN numVariations ELSE 0)
    /\ Len(processedFiles) > 0
    /\ error = <<>>
    /\ isProcessing = FALSE
    /\ processingStatus = "Processing Complete"
    /\ bpc = "done"
    /\ idx = 1
    /\ stage1Results = <<>>
    /\ refinedResults = <<>>
    /\ stage2Results = <<>>
    /\ finalResults = <<>>
    /\ variations = <<>>
    /\ alignLog = <<>>
    /\ closure = NoClosure
    /\ yields = 0
    /\ resetAt = -1
    /\ fixingImageId = NoId
    /\ pendingDrops = <<>>
    /\ viewMode = "grid"
    /\ currentIndex = 0
    /\ isPlaying = FALSE
    /\ effectPending = TRUE
    /\ gpc = "idle"
    /\ retryCount = 0
    /\ attemptLog = <<>>
    /\ returned = <<>>
    /\ thrown = <<>>

\* what the Previewer's own handlers leave alone
previewFrame == << serviceVars, settingVars, processedFiles, error,
                   isProcessing, processingStatus, bpc, idx, stage1Results,
                   refinedResults, stage2Results, finalResults, variations,
                   alignLog, closure, yields, resetAt, fixingImageId,
                   pendingDrops, genVars >>

\* files.findIndex(f => f.id === masterFileId)
findIndex(files, id) ==
    IF id \in Ids(files)
    THEN (CHOOSE k \in 1..Len(files) :
             /\ files[k].id = id
             /\ \A j \in 1..(k - 1) : files[j].id # id) - 1
    ELSE -1

MathMin(a, b) == IF a < b THEN a ELSE b

\* the Previewer is rendered and its effects have run
previewerReady ==
    /\ pc = "preview"
    /\ Len(processedFiles) > 0
    /\ ~effectPending

\* Previewer.tsx lines 36-43: the effect on [files, masterFileId], which
\* runs after the render that saw the new props
MasterIndexEffect ==
    /\ pc = "preview"
    /\ effectPending
    /\ effectPending' = FALSE
    /\ IF Len(processedFiles) > 0
       THEN LET masterIndex == findIndex(processedFiles, masterFileId)
                newIndex == IF masterIndex # -1 THEN masterIndex ELSE 0
            IN  currentIndex' = MathMin(newIndex, Len(processedFiles) - 1)
       ELSE UNCHANGED currentIndex
    /\ UNCHANGED << previewFrame, viewMode, isPlaying >>

\* Previewer.tsx lines 50-52: one tick of the playback interval
PlaybackTick ==
    /\ previewerReady
    /\ isPlaying
    /\ currentIndex' = (currentIndex + 1) % Len(processedFiles)
    /\ UNCHANGED << previewFrame, viewMode, isPlaying, effectPending >>

\* Previewer.tsx lines 57-60; the button is rendered in the single view
\* while not playing
HandleNext ==
    /\ previewerReady
    /\ viewMode = "single"
    /\ ~isPlaying
    /\ isPlaying' = FALSE
    /\ currentIndex' = (currentIndex + 1) % Len(processedFiles)
    /\ UNCHANGED << previewFrame, viewMode, effectPending >>

\* Previewer.tsx lines 62-65
HandlePrev ==
    /\ previewerReady
    /\ viewMode = "single"
    /\ ~isPlaying
    /\ isPlaying' = FALSE
    /\ currentIndex' =
          (currentIndex - 1 + Len(processedFiles)) % Len(processedFiles)
    /\ UNCHANGED << previewFrame, viewMode, effectPending >>

\* Previewer.tsx lines 85-88
HandleViewModeChange(mode) ==
    /\ previewerReady
    /\ isPlaying' = FALSE
    /\ viewMode' = mode
    /\ UNCHANGED << previewFrame, currentIndex, effectPending >>

\* Previewer.tsx lines 90-95
HandlePlayToggle ==
    /\ previewerReady
    /\ viewMode' = IF ~isPlaying THEN "single" ELSE viewMode
    /\ isPlaying' = ~isPlaying
    /\ UNCHANGED << previewFrame, currentIndex, effectPending >>

\* App.tsx lines 188-205, called from the delete button of the grid view;
\* deleting the last artifact goes back to the selection screen, which
\* unmounts the Previewer
HandleDeleteProcessedFile(idToDelete) ==
    /\ previewerReady
    /\ viewMode = "grid"
    /\ idToDelete \in Ids(processedFiles)
    /\ LET newProcessed ==
               SelectSeq(processedFiles, LAMBDA f : f.id # idToDelete)
       IN  /\ processedFiles' = newProcessed
           /\ uploadedFiles' =
                 IF idToDelete <= MaxFiles
                 THEN SelectSeq(uploadedFiles, LAMBDA f : f.id # idToDelete)
                 ELSE uploadedFiles
           /\ masterFileId' =
                 IF masterFileId = idToDelete THEN NoId ELSE masterFileId
           /\ IF Len(newProcessed) = 0
              THEN /\ processingStatus' = ""
                   /\ error' = <<>>
                   /\ viewMode' = "grid"
                   /\ currentIndex' = 0
                   /\ isPlaying' = FALSE
                   /\ effectPending' = FALSE
              ELSE /\ effectPending' = TRUE
                   /\ UNCHANGED << processingStatus, error, viewMode,
                                   currentIndex, isPlaying >>
    /\ UNCHANGED << serviceVars, isEnsembleCorrectionEnabled,
                    isAiVariationsEnabled, numVariations, aspectRatio,
                    isProcessing, bpc, idx, stage1Results, refinedResults,
                    stage2Results, finalResults, variations, alignLog,
                    closure, yields, resetAt, fixingImageId, pendingDrops,
                    genVars >>

NextPreviewer ==
    \/ MasterIndexEffect
    \/ PlaybackTick
    \/ HandleNext
    \/ HandlePrev
    \/ \E mode \in {"grid", "single"} : HandleViewModeChange(mode)
    \/ HandlePlayToggle
    \/ \E idToDelete \in 1..(MaxFiles + MaxVariations) :
           HandleDeleteProcessedFile(idToDelete)

SpecPreviewer == InitPreviewer /\ [][NextPreviewer]_vars

\* ------------------------------------------------------------------------
\* The generation specification: generateVariation and its retry loop
\* ------------------------------------------------------------------------
\* const maxRetries = 2
maxRetries == 2

\* the messages of the errors one attempt can end with
ErrorMessages ==
    {
      \* line 153: the message of the 20 second timeout
      << "R", "e", "q", "u", "e", "s", "t", " ", "t", "i",
         "m", "e", "o", "u", "t", " ", "a", "f", "t", "e",
         "r", " ", "2", "0", " ", "s", "e", "c", "o", "n",
         "d", "s" >>,
      \* line 184
      << "A", "I", " ", "d", "i", "d", " ", "n", "o", "t",
         " ", "r", "e", "t", "u", "r", "n", " ", "a", "n",
         " ", "i", "m", "a", "g", "e", "." >>,
      \* a failed fetch as WebKit reports it
      << "L", "o", "a", "d", " ", "f", "a", "i", "l", "e",
         "d" >>,
      \* a failed fetch as Chromium reports it
      << "F", "a", "i", "l", "e", "d", " ", "t", "o", " ",
         "f", "e", "t", "c", "h" >>,
      \* a failed fetch as Gecko reports it
      << "N", "e", "t", "w", "o", "r", "k", "E", "r", "r",
         "o", "r", " ", "w", "h", "e", "n", " ", "a", "t",
         "t", "e", "m", "p", "t", "i", "n", "g", " ", "t",
         "o", " ", "f", "e", "t", "c", "h", " ", "r", "e",
         "s", "o", "u", "r", "c", "e", "." >>,
      \* a dropped connection as WebKit reports it
      << "T", "h", "e", " ", "n", "e", "t", "w", "o", "r",
         "k", " ", "c", "o", "n", "n", "e", "c", "t", "i",
         "o", "n", " ", "w", "a", "s", " ", "l", "o", "s",
         "t", "." >>,
      \* an API error, the one App.tsx line 357 looks for
      << "R", "e", "q", "u", "e", "s", "t", "e", "d", " ",
         "e", "n", "t", "i", "t", "y", " ", "w", "a", "s",
         " ", "n", "o", "t", " ", "f", "o", "u", "n", "d",
         "." >>,
      \* line 168 on a response without candidates
      << "C", "a", "n", "n", "o", "t", " ", "r", "e", "a",
         "d", " ", "p", "r", "o", "p", "e", "r", "t", "i",
         "e", "s", " ", "o", "f", " ", "u", "n", "d", "e",
         "f", "i", "n", "e", "d", " ", "(", "r", "e", "a",
         "d", "i", "n", "g", " ", "'", "0", "'", ")" >>
    }

\* the three substrings of lines 201-203
TimeoutWord ==
    << "t", "i", "m", "e", "o", "u", "t" >>

LoadFailedWord ==
    << "L", "o", "a", "d", " ", "f", "a", "i", "l", "e",
       "d" >>

NetworkWord ==
    << "n", "e", "t", "w", "o", "r", "k" >>

\* String.prototype.includes on character sequences, case-sensitive
includes(message, searchString) ==
    \E i \in 0..(Len(message) - Len(searchString)) :
        SubSeq(message, i + 1, i + Len(searchString)) = searchString

\* a catch block that retries after every error
shouldRetryAlways(count, message) == count < maxRetries

\* lines 200-203: the condition under which the catch block retries
shouldRetry(count, message) ==
    /\ count < maxRetries
    /\ \/ includes(message, TimeoutWord)
       \/ includes(message, LoadFailedWord)
       \/ includes(message, NetworkWord)

\* the outcome of one attempt: an image, or an error with a message
ImageOutcome == [kind |-> "image", message |-> <<>>]

errorOutcome(message) == [kind |-> "error", message |-> message]

AttemptOutcomes == {ImageOutcome} \cup { errorOutcome(m) : m \in ErrorMessages }

InitGenerate == ServiceAt("generate") /\ AppInit

\* what generateVariation leaves alone
generateFrame == << serviceVars, settingVars, processedFiles, error,
                    isProcessing, processingStatus, bpc, idx, stage1Results,
                    refinedResults, stage2Results, finalResults, variations,
                    alignLog, closure, yields, resetAt, fixingImageId,
                    pendingDrops, previewVars >>

\* lines 72-77: a call
GenerateVariation ==
    /\ pc = "generate"
    /\ gpc \in {"idle", "returned", "threw"}
    /\ gpc' = "attempt"
    /\ retryCount' = 0
    /\ attemptLog' = <<>>
    /\ returned' = <<>>
    /\ thrown' = <<>>
    /\ UNCHANGED generateFrame

\* lines 78-212: one iteration of the while loop
Attempt(outcome) ==
    /\ pc = "generate"
    /\ gpc = "attempt"
    /\ retryCount <= maxRetries
    /\ attemptLog' = Append(attemptLog, outcome)
    /\ IF outcome.kind = "image"
       THEN /\ returned' = Append(returned, "imageUrl")
            /\ gpc' = "returned"
            /\ UNCHANGED << retryCount, thrown >>
       ELSE IF shouldRetry(retryCount, outcome.message)
            THEN /\ retryCount' = retryCount + 1
                 /\ UNCHANGED << gpc, returned, thrown >>
            ELSE /\ thrown' = << outcome >>
                 /\ gpc' = "threw"
                 /\ UNCHANGED << retryCount, returned >>
    /\ UNCHANGED generateFrame

NextGenerate ==
    \/ GenerateVariation
    \/ \E outcome \in AttemptOutcomes : Attempt(outcome)

SpecGenerate == InitGenerate /\ [][NextGenerate]_vars

\* ------------------------------------------------------------------------
\* Properties
\* ------------------------------------------------------------------------
\* native objects allocated by the calls made so far and not released
Outstanding == outstanding + Cardinality(heap.live)

\* C1: once a call of processImageLocally or refineWithGoldenTemplate has
\* settled, whether it succeeded or failed, no native object allocated by
\* the calls made so far is left unreleased.
C1_NoOutstandingNativeObjects ==
    pc = "settled" => Outstanding = 0

\* C2: with perspective correction requested and the initial gate passed,
\* the transform selected by performAlignment is the composed
\* coarse-to-fine transform exactly when the coarse affine is non-empty,
\* the re-match reaches the mode minimum and the refinement homography is
\* non-empty; in every other case it is the one-shot homography on the raw
\* correspondences, and no error other than an empty one-shot homography
\* is raised after the gate.
C2_PerspectiveFallbackChain ==
    LET minimum == IF pa.isGreedy THEN 5 ELSE 10
        allSucceed == /\ ~empty(affineMatrix)
                      /\ Len(goodMatchesRefined) >= minimum
                      /\ ~empty(homographyRefinement)
    IN  /\ (pc = "pa_final" /\ pa.usePerspectiveCorrection) =>
              IF allSucceed
              THEN /\ transformObj = "combinedHomography"
                   /\ transformMatrix =
                        gemm(homographyRefinement, affine3x3Of(affineMatrix), 1)
              ELSE /\ transformObj = "directHomography"
                   /\ transformMatrix = directHomography
        /\ (pc = "pa_catch" /\ pa.usePerspectiveCorrection
                /\ Len(goodMatches) >= minimum) =>
              err.kind = "NoFinalTransformation"

\* C2 witness: the re-match fell below the minimum after a non-empty coarse
\* affine and the one-shot homography was selected
C2_Witness ==
    /\ pc = "pa_final"
    /\ pa.usePerspectiveCorrection
    /\ ~empty(affineMatrix)
    /\ Len(goodMatchesRefined) = 9
    /\ ~pa.isGreedy
    /\ transformObj = "directHomography"
    /\ ~empty(transformMatrix)

\* number of entries of the initial k-NN result that survive the ratio test
\* of the mode
Survivors ==
    Cardinality({ i \in 1..Len(matches) :
        /\ Len(matches[i]) > 1
        /\ matches[i][1].distance * 100
             < (IF pa.isGreedy THEN 85 ELSE 75) * matches[i][2].distance })

\* C3: the not-enough-matches error is raised exactly when the number of
\* ratio-test survivors of the initial match is below the mode minimum
\* (10 at ratio 0.75 in normal mode, 5 at ratio 0.85 in greedy mode), and
\* it carries the survivor count and the minimum.
C3_InsufficientMatchesExactly ==
    LET minimum == IF pa.isGreedy THEN 5 ELSE 10
    IN  /\ matches # <<>> =>
              /\ (err.kind = "NotEnoughGoodMatches") <=> (Survivors < minimum)
              /\ err.kind = "NotEnoughGoodMatches" => err.count = Survivors
              /\ Len(goodMatches) = Survivors
        /\ err.kind = "NotEnoughGoodMatches" =>
              /\ err.required = minimum
              /\ err.count < minimum

\* C3 witness: nine survivors in normal mode, the error names 9 and 10
C3_Witness ==
    /\ pc = "pa_catch"
    /\ ~pa.isGreedy
    /\ matches # <<>>
    /\ err.kind = "NotEnoughGoodMatches"
    /\ err.count = 9
    /\ err.required = 10

\* C4: a call of processImageLocally with isMaster = true never calls
\* performAlignment, warps with the identity (3x3 with perspective
\* correction, 2x3 without) and produces the 1x1 placeholder diagnostic.
C4_MasterShortCircuit ==
    (call.name = "processImageLocally" /\ call.isMaster) =>
        /\ alignCalls = 0
        /\ pc \in {"pil_load", "pil_master", "pil_warp", "pil_catch", "settled"}
        /\ (pc = "pil_warp" \/ warp # "none") =>
              /\ transformMatrix =
                    (IF call.isPerspectiveCorrectionEnabled
                     THEN << <<1, 0, 0>>, <<0, 1, 0>>, <<0, 0, 1>> >>
                     ELSE << <<1, 0, 0>>, <<0, 1, 0>> >>)
              /\ debugUrl = "placeholder1x1"

\* C4 witness: a master call with perspective correction, greedy mode and
\* refinement all on has resolved
C4_Witness ==
    /\ call.name = "processImageLocally"
    /\ call.isMaster
    /\ call.isPerspectiveCorrectionEnabled
    /\ call.isGreedyMode
    /\ call.isRefinementEnabled
    /\ pc = "settled"
    /\ result.state = "resolved"
    /\ warp = "warpPerspective"

\* C5: refineWithGoldenTemplate never rejects; it resolves with the
\* re-aligned image, or, after any failure, with exactly the input URL.
C5_RefinerNeverRejects ==
    call.name = "refineWithGoldenTemplate" =>
        /\ result.state # "rejected"
        /\ pc = "settled" =>
              /\ result.state = "resolved"
              /\ IF err.kind = "none"
                 THEN result.value = "refined"
                 ELSE result.value = call.processedImageUrl

\* C5 witness: the refiner settled with the input URL after an image
\* without features
C5_Witness ==
    /\ call.name = "refineWithGoldenTemplate"
    /\ pc = "settled"
    /\ err.kind = "NoFeatures"
    /\ result.state = "resolved"
    /\ result.value = call.processedImageUrl

\* sample points of the plane
Points == { <<x, y>> : x \in -1..2, y \in -1..2 }

\* the image of the point p under the 2x3 affine a
ApplyAffine(a, p) ==
    << a[1][1] * p[1] + a[1][2] * p[2] + a[1][3],
       a[2][1] * p[1] + a[2][2] * p[2] + a[2][3] >>

\* the image of the point p under the 3x3 matrix h, in homogeneous
\* coordinates
ApplyHomography(h, p) ==
    << h[1][1] * p[1] + h[1][2] * p[2] + h[1][3],
       h[2][1] * p[1] + h[2][2] * p[2] + h[2][3],
       h[3][1] * p[1] + h[3][2] * p[2] + h[3][3] >>

\* C6: the composed coarse-to-fine transform maps every point to where the
\* coarse affine followed by the refinement homography maps it: it is the
\* product (refinement homography) x (coarse affine as 3x3), in that order.
C6_ComposedIsAffineThenHomography ==
    (pc = "pa_final" /\ transformObj = "combinedHomography") =>
        /\ rows(transformMatrix) = 3
        /\ cols(transformMatrix) = 3
        /\ \A p \in Points :
              ApplyHomography(transformMatrix, p)
                = ApplyHomography(homographyRefinement,
                                  ApplyAffine(affineMatrix, p))

\* C6 witness: a composed transform whose two factors do not commute
C6_Witness ==
    /\ pc = "pa_final"
    /\ transformObj = "combinedHomography"
    /\ \E p \in Points :
          ApplyHomography(transformMatrix, p)
            # ApplyHomography(affine3x3Of(affineMatrix),
                  << ApplyHomography(homographyRefinement, p)[1],
                     ApplyHomography(homographyRefinement, p)[2] >>)

\* C7: with perspective correction and the initial gate passed,
\* performAlignment returns the selected transform whenever that is the
\* composed transform or a non-empty one-shot homography, and throws the
\* transform-estimation error only when a fallback was taken and the
\* one-shot homography is empty.
C7_ErrorOnlyWhenFallbackIsEmpty ==
    /\ [][ (pc = "pa_final" /\ pa.usePerspectiveCorrection) =>
              IF transformObj = "combinedHomography" \/ ~empty(directHomography)
              THEN /\ pc' = returnPc
                   /\ err'.kind = "none"
                   /\ transformMatrix' = transformMatrix
                   /\ ~empty(transformMatrix')
              ELSE /\ pc' = "pa_catch"
                   /\ err'.kind = "NoFinalTransformation" ]_vars
    /\ [](( /\ pc = "pa_catch"
            /\ pa.usePerspectiveCorrection
            /\ Len(goodMatches) >= (IF pa.isGreedy THEN 5 ELSE 10) ) =>
              /\ err.kind = "NoFinalTransformation"
              /\ transformObj = "directHomography"
              /\ empty(directHomography))

\* C7 witness: the refinement homography was empty, the one-shot
\* homography too, and the call is failing with the estimation error
C7_Witness ==
    /\ pc = "pa_catch"
    /\ pa.usePerspectiveCorrection
    /\ ~empty(affineMatrix)
    /\ Len(goodMatchesRefined) >= 10
    /\ empty(homographyRefinement)
    /\ empty(directHomography)
    /\ err.kind = "NoFinalTransformation"

\* C8: in the affine strategy with refinement, after a non-empty first
\* affine, the selected transform is the 2x3 composition (second affine
\* after first affine) when the re-match reaches the mode minimum and the
\* second fit is non-empty, and the unchanged first affine otherwise; no
\* error is raised in either case.
C8_AffineRefinementComposition ==
    LET minimum == IF pa.isGreedy THEN 5 ELSE 10
        refined == /\ Len(goodMatchesRefined) >= minimum
                   /\ ~empty(affineRefinement)
    IN  /\ ( /\ pc = "pa_final"
             /\ ~pa.usePerspectiveCorrection
             /\ pa.useRefinement ) =>
              /\ err.kind = "none"
              /\ rows(transformMatrix) = 2
              /\ cols(transformMatrix) = 3
              /\ IF refined
                 THEN \A p \in Points :
                         ApplyAffine(transformMatrix, p)
                           = ApplyAffine(affineRefinement,
                                         ApplyAffine(affineTransform, p))
                 ELSE /\ transformMatrix = affineTransform
                      /\ transformObj = "affineTransform"
        /\ ( /\ pc = "pa_catch"
             /\ ~pa.usePerspectiveCorrection
             /\ err.kind \notin {"NoFeatures", "NotEnoughGoodMatches"} ) =>
              /\ err.kind = "NoTransformation"
              /\ empty(affineTransform)

\* C8 witness: two affines that do not commute were composed
C8_Witness ==
    /\ pc = "pa_final"
    /\ ~pa.usePerspectiveCorrection
    /\ pa.useRefinement
    /\ transformObj = "finalAffine"
    /\ \E p \in Points :
          ApplyAffine(transformMatrix, p)
            # ApplyAffine(affineTransform, ApplyAffine(affineRefinement, p))

\* C9: whenever processImageLocally reaches the final warp, the transform
\* is 3x3 (identity, one-shot or composed homography) if the perspective
\* warp is applied and 2x3 (identity, first or composed affine) if the
\* affine warp is applied.
C9_TransformShapeMatchesWarp ==
    (call.name = "processImageLocally" /\ (pc = "pil_warp" \/ warp # "none")) =>
        IF call.isPerspectiveCorrectionEnabled
        THEN /\ warp \in {"none", "warpPerspective"}
             /\ rows(transformMatrix) = 3
             /\ cols(transformMatrix) = 3
             /\ transformObj \in {"identity", "directHomography",
                                  "combinedHomography"}
        ELSE /\ warp \in {"none", "warpAffine"}
             /\ rows(transformMatrix) = 2
             /\ cols(transformMatrix) = 3
             /\ transformObj \in {"identity", "affineTransform", "finalAffine"}

\* C9 witness: a composed affine went through the affine warp
C9_Witness ==
    /\ call.name = "processImageLocally"
    /\ pc = "settled"
    /\ result.state = "resolved"
    /\ warp = "warpAffine"
    /\ transformObj = "finalAffine"

\* C10: for warped dimensions w, h >= 1 the canvas W x H has W >= w and
\* H >= h; if w/h exceeds 9/16 then W = w and H is 16w/9 rounded to the
\* nearest integer, otherwise H = h and W is 9h/16 rounded to the nearest
\* integer (halves up), so at most one dimension grows.
C10_CanvasCoversWarped ==
    pc = "canvas_done" =>
        /\ finalWidth >= warpedWidth
        /\ finalHeight >= warpedHeight
        /\ finalWidth = warpedWidth \/ finalHeight = warpedHeight
        /\ IF 16 * warpedWidth > 9 * warpedHeight
           THEN /\ finalWidth = warpedWidth
                /\ -9 < 2 * (9 * finalHeight - 16 * warpedWidth)
                /\ 2 * (9 * finalHeight - 16 * warpedWidth) <= 9
           ELSE /\ finalHeight = warpedHeight
                /\ -16 < 2 * (16 * finalWidth - 9 * warpedHeight)
                /\ 2 * (16 * finalWidth - 9 * warpedHeight) <= 16

\* C10 witness: the width grew and 9h/16 was rounded up
C10_Witness ==
    /\ pc = "canvas_done"
    /\ finalHeight = warpedHeight
    /\ finalWidth > warpedWidth
    /\ 16 * finalWidth > 9 * warpedHeight

\* C11: the pads are leftPad = floor((W-w)/2), rightPad = (W-w) - leftPad,
\* topPad = floor((H-h)/2), bottomPad = (H-h) - topPad; each axis' pads sum
\* to the pad of that axis, and the trailing pad exceeds the leading pad by
\* exactly 1 when the pad is odd and equals it when the pad is even.
C11_PadSplit ==
    pc = "canvas_done" =>
        LET padX == finalWidth - warpedWidth
            padY == finalHeight - warpedHeight
        IN  /\ 2 * border.left <= padX /\ padX < 2 * border.left + 2
            /\ 2 * border.top <= padY /\ padY < 2 * border.top + 2
            /\ border.left + border.right = padX
            /\ border.top + border.bottom = padY
            /\ border.right - border.left = padX % 2
            /\ border.bottom - border.top = padY % 2

\* C11 witness: an odd horizontal pad, the odd pixel on the right
C11_Witness ==
    /\ pc = "canvas_done"
    /\ (finalWidth - warpedWidth) % 2 = 1
    /\ finalWidth - warpedWidth >= 3
    /\ border.right = border.left + 1

\* width : height of an AspectRatio value
RatioOf(ratio) ==
    CASE ratio = "9:16" -> [num |-> 9, den |-> 16]
      [] ratio = "1:1"  -> [num |-> 1, den |-> 1]
      [] ratio = "16:9" -> [num |-> 16, den |-> 9]

\* C12: the canvas is computed against the aspect ratio selected for the
\* run: for each of 9:16, 1:1 and 16:9 the dimension that grows is the
\* warped one scaled by that ratio and rounded, the other is kept.
C12_CanvasUsesSelectedRatio ==
    pc = "canvas_done" =>
        LET r == RatioOf(aspectRatio)
        IN  IF warpedWidth * r.den > warpedHeight * r.num
            THEN /\ finalWidth = warpedWidth
                 /\ finalHeight = MathRound(warpedWidth * r.den, r.num)
            ELSE /\ finalHeight = warpedHeight
                 /\ finalWidth = MathRound(warpedHeight * r.num, r.den)

\* C13: the keypoint sets and the transform that performAlignment returned
\* are released by processImageLocally and by refineWithGoldenTemplate on
\* every exit path, also when the diagnostic rendering, the warp or the
\* rasterizing throws after performAlignment has returned.
C13_CallerReleasesAlignResult ==
    pc = "settled" =>
        /\ heap.live \cap {"keypointsBase", "keypointsTarget"} = {}
        /\ transformObj \notin heap.live

\* C14: refineWithGoldenTemplate aligns with a single affine-only estimate:
\* it never asks performAlignment for perspective correction nor for the
\* refinement stage, and never runs the re-detect / re-match of that stage.
C14_RefinerSingleAffinePass ==
    call.name = "refineWithGoldenTemplate" =>
        /\ ~pa.usePerspectiveCorrection
        /\ ~pa.useRefinement
        /\ pc # "pa_refine"

\* files whose processImageLocally call of this run settled as given
Aligned(outcome) ==
    { alignLog[k].target :
        k \in { j \in 1..Len(alignLog) :
                  /\ alignLog[j].fn = "processImageLocally"
                  /\ alignLog[j].outcome = outcome } }

\* the run is over, completed or aborted
RunEnded == bpc \in {"done", "aborted"}

\* C15: when processImageLocally fails for a non-master file, in the
\* standard or in the perspective stage, the run goes on: it completes,
\* every standard and perspective file has been attempted, a failed file
\* has no entry in processedFiles and every successful one has one.
C15_FailedFileIsSkipped ==
    (RunEnded /\ masterFileId \in Aligned("resolved")) =>
        /\ bpc = "done"
        /\ Aligned("resolved") \cup Aligned("rejected")
              = Ids(standardFiles) \cup Ids(perspectiveFiles)
        /\ Aligned("rejected") \cap Ids(processedFiles) = {}
        /\ Aligned("resolved") \subseteq Ids(processedFiles)
        /\ \A f \in Aligned("rejected") : errorEntry("file", f) \in
               { error[k] : k \in 1..Len(error) }

\* C15 witness: a standard file failed, a later standard file and a
\* perspective file were still processed, and the run completed
C15_Witness ==
    /\ bpc = "done"
    /\ \E j, k, l \in 1..Len(alignLog) :
          /\ j < k /\ k < l
          /\ alignLog[j].outcome = "rejected" /\ ~alignLog[j].perspective
          /\ alignLog[k].outcome = "resolved" /\ ~alignLog[k].perspective
          /\ alignLog[l].outcome = "resolved" /\ alignLog[l].perspective
    /\ Aligned("rejected") \cap Ids(processedFiles) = {}

\* the run is past the entry of the ensemble pass
PastStage2Begin ==
    bpc \in {"stage2", "stage3begin", "stage3", "stage4begin", "stage4",
             "finish", "done"}

\* the run is past the entry of the perspective stage
PastStage3Begin ==
    bpc \in {"stage3", "stage4begin", "stage4", "finish", "done"}

\* the run is past the entry of the AI stage
PastStage4Begin == bpc \in {"stage4", "finish", "done"}

\* C16: whenever the master is absent from the result set a stage relies
\* on (stage-1 results at the ensemble pass, stage-2 results at the
\* perspective stage, final results at the AI stage) the run does not go
\* on past that stage nor report completion, and an aborted run shows an
\* error.
C16_MissingMasterAborts ==
    /\ (/\ PastStage2Begin
        /\ isEnsembleCorrectionEnabled
        /\ Len(stage1Results) > 1) => masterFileId \in Ids(stage1Results)
    /\ (PastStage3Begin /\ Len(perspectiveFiles) > 0)
          => masterFileId \in Ids(stage2Results)
    /\ (PastStage4Begin /\ isAiVariationsEnabled /\ numVariations > 0)
          => masterFileId \in Ids(finalResults)
    /\ bpc = "aborted" => (error # <<>> /\ ~isProcessing)

\* the entries of the error message
ErrorEntries == { error[k] : k \in 1..Len(error) }

\* C17: at the end of a run the error message has one entry for every file
\* whose alignment failed and for every AI variation that failed; nothing
\* recorded earlier in the run has been dropped or overwritten.
C17_EveryFailureIsReported ==
    RunEnded =>
        /\ \A f \in Aligned("rejected") : errorEntry("file", f) \in ErrorEntries
        /\ \A i \in 1..Len(variations) :
              variations[i].state = "null"
                  => errorEntry("variation", i) \in ErrorEntries

\* every service call of stages 1 to 3 succeeded
AllSucceeded ==
    \A k \in 1..Len(alignLog) : alignLog[k].outcome \in {"resolved", "refined"}

\* the artifacts of the uploaded files among processedFiles
FileArtifacts ==
    SelectSeq(processedFiles, LAMBDA a : a.id \in Ids(uploadedFiles))

\* the calls of refineWithGoldenTemplate logged for a file
RefineCalls(f) ==
    { k \in 1..Len(alignLog) :
        /\ alignLog[k].fn = "refineWithGoldenTemplate"
        /\ alignLog[k].target = f }

\* C18: with ensemble correction enabled and every alignment succeeding, a
\* completed run on n standard files has exactly n artifacts of those
\* files, one per file id; the master's artifact is its stage-1 output and
\* was never handed to the refiner; every other artifact is what
\* refineWithGoldenTemplate returned for the file's stage-1 output against
\* the processed master.
C18_EnsembleKeepsMaster ==
    (/\ bpc = "done"
     /\ isEnsembleCorrectionEnabled
     /\ Len(standardFiles) = Len(uploadedFiles)
     /\ AllSucceeded) =>
        /\ Len(FileArtifacts) = Len(uploadedFiles)
        /\ Ids(FileArtifacts) = Ids(uploadedFiles)
        /\ ~(isAiVariationsEnabled /\ numVariations > 0)
              => Len(processedFiles) = Len(uploadedFiles)
        /\ find(processedFiles, masterFileId) = find(stage1Results, masterFileId)
        /\ ~find(processedFiles, masterFileId).processedUrl.refined
        /\ RefineCalls(masterFileId) = {}
        /\ \A f \in Ids(uploadedFiles) \ {masterFileId} :
              /\ find(processedFiles, f).processedUrl =
                     refinedUrl(find(stage1Results, f).processedUrl, "refined")
              /\ \E k \in RefineCalls(f) : alignLog[k].master = "processed"

\* C18 witness: three standard files, the second is the master, ensemble
\* correction ran and refined the other two
C18_Witness ==
    /\ bpc = "done"
    /\ isEnsembleCorrectionEnabled
    /\ AllSucceeded
    /\ Len(standardFiles) = 3
    /\ Len(uploadedFiles) = 3
    /\ masterFileId = 2
    /\ Len(FileArtifacts) = 3
    /\ find(processedFiles, 1).processedUrl.refined
    /\ find(processedFiles, 3).processedUrl.refined

\* positions of the log where a file is aligned with perspective correction
PerspectiveCalls ==
    { j \in 1..Len(alignLog) :
        alignLog[j].fn = "processImageLocally" /\ alignLog[j].perspective }

\* the ensemble pass runs in this run
EnsembleRuns ==
    /\ isEnsembleCorrectionEnabled
    /\ Len(stage1Results) > 1
    /\ masterFileId \in Ids(stage1Results)

\* C19: when a perspective-flagged file is aligned, every standard file has
\* been aligned before it and the ensemble pass, if it runs, has refined
\* every non-master stage-1 result before it; the file is aligned against
\* the processed master of those stages, not the raw master image; and no
\* perspective-flagged file is aligned in the standard stage.
C19_PerspectiveAfterEnsemble ==
    /\ \A j \in PerspectiveCalls :
          /\ alignLog[j].master = "processed"
          /\ masterFileId \in Ids(stage2Results)
          /\ alignLog[j].target \in Ids(perspectiveFiles)
          /\ \A f \in Ids(standardFiles) :
                \E k \in 1..(j - 1) :
                    /\ alignLog[k].fn = "processImageLocally"
                    /\ ~alignLog[k].perspective
                    /\ alignLog[k].target = f
          /\ EnsembleRuns =>
                \A f \in Ids(stage1Results) \ {masterFileId} :
                    \E k \in RefineCalls(f) : k < j
    /\ \A j \in 1..Len(alignLog) :
          (alignLog[j].fn = "processImageLocally" /\ ~alignLog[j].perspective)
              => alignLog[j].target \in Ids(standardFiles)
    /\ bpc = "stage3" => (EnsembleRuns => stage2Results = refinedResults)

\* C19 witness: a perspective file was aligned after an ensemble pass
C19_Witness ==
    /\ PerspectiveCalls # {}
    /\ EnsembleRuns
    /\ \E j \in PerspectiveCalls :
          \E k \in 1..(j - 1) : alignLog[k].fn = "refineWithGoldenTemplate"

\* ids of the AI variations among a list of artifacts
VariationIds(list) == { id \in Ids(list) : id > MaxFiles }

\* C20: every AI-variation task is started before any of them is awaited;
\* no task's promise rejects; after the join the variations appended to
\* the results are exactly those whose generation succeeded, each with the
\* URL refineWithGoldenTemplate returned for it, whichever others failed.
C20_VariationsJoin ==
    /\ bpc = "stage4" =>
          /\ Len(variations) = numVariations
          /\ \A i \in 1..Len(variations) : variations[i].state # "idle"
    /\ \A i \in 1..Len(variations) :
          variations[i].state \in {"generating", "refining", "artifact", "null"}
    /\ (bpc \in {"finish", "done"} /\ Len(variations) > 0) =>
          /\ VariationIds(finalResults) =
                { AiVarId(i) : i \in { t \in 1..Len(variations) :
                                         variations[t].state = "artifact" } }
          /\ Len(finalResults) =
                Len(stage2Results) + Cardinality(Aligned("resolved")
                                                   \cap Ids(perspectiveFiles))
                + Cardinality(VariationIds(finalResults))
          /\ \A i \in 1..Len(variations) :
                variations[i].state = "artifact" =>
                    /\ find(finalResults, AiVarId(i)).processedUrl =
                          refinedUrl(generatedUrl(i), variations[i].refine)
                    /\ find(finalResults, AiVarId(i)).debugUrl = generatedUrl(i)

\* C20 witness: of two variations one failed and the other was appended
C20_Witness ==
    /\ bpc = "done"
    /\ Len(variations) >= 2
    /\ variations[1].state = "null"
    /\ variations[2].state = "artifact"
    /\ AiVarId(2) \in Ids(processedFiles)
    /\ AiVarId(1) \notin Ids(processedFiles)

\* C21: once the user has reset, the run in progress aligns no further
\* file and publishes no further artifact or status: what the reset
\* cleared stays cleared.
C21_ResetStopsRun ==
    resetAt >= 0 =>
        /\ Len(alignLog) = resetAt
        /\ processedFiles = <<>>
        /\ processingStatus = ""

\* positions of processedFiles whose entry the step changes
ChangedEntries ==
    { k \in 1..Len(processedFiles) : processedFiles'[k] # processedFiles[k] }

\* C22: a step that ends a perspective fix keeps the length and the order
\* of processedFiles and changes at most the one artifact of the file being
\* fixed, replacing its processedUrl and debugUrl; when the fix failed it
\* changes nothing; fixingImageId is null again afterwards.
C22_FixReplacesOnlyItsFile ==
    [][ (fixingImageId # NoId /\ fixingImageId' = NoId) =>
            /\ Len(processedFiles') = Len(processedFiles)
            /\ Cardinality(ChangedEntries) <= 1
            /\ \A k \in ChangedEntries :
                  /\ processedFiles[k].id = fixingImageId
                  /\ processedFiles'[k].processedUrl.perspective
                  /\ processedFiles'[k].debugUrl.perspective
            /\ error' # error => processedFiles' = processedFiles ]_vars

\* a step of a file loop that handles one file yields once after it, and
\* only such a step aligns
FileStepYields ==
    bpc \in {"stage1", "stage2", "stage3"} =>
        /\ (idx' = idx + 1) =>
              (/\ yields' = yields + 1
               /\ Len(alignLog') - Len(alignLog) \in {1, 2})
        /\ (Len(alignLog') # Len(alignLog)) => (idx' = idx + 1)

\* C23: every step of a file loop that handles one file, whether the file
\* succeeded or failed, ends with exactly one yield to the event loop, so a
\* yield separates the alignments of two consecutive files; alignments
\* happen only in such steps, with no yield between the calls made for
\* one file.
C23_YieldAfterEachFile == [][FileStepYields]_vars

\* a run has handled a failed file and gone on to the next file of the
\* perspective loop, after an ensemble pass
C23_Witness ==
    /\ bpc = "stage3"
    /\ idx > 1
    /\ error # <<>>
    /\ Len(refinedResults) > 1
    /\ yields >= 6

\* the native objects performAlignment hands to its caller
AlignResult == {transformObj, "keypointsBase", "keypointsTarget"}

\* C24: no native object is released twice; on every success path the
\* transform and both keypoint sets are live when performAlignment returns
\* and the transform is live when it is used for the warp; once the caller
\* has settled each of them has been released.
C24_AlignResultOwnedByCaller ==
    /\ ~heap.doubleDelete
    /\ pc \in {"pil_debug", "rgt_warp"} => AlignResult \subseteq heap.live
    /\ (pc = "pil_warp" /\ transformObj # "none") => transformObj \in heap.live
    /\ (pc = "settled" /\ transformObj \notin {"none", "identity"}) =>
           AlignResult \subseteq heap.deleted

\* C25: the designated master is never marked as needing perspective
\* correction, so it is always among the standard files of a run.
C25_MasterIsStandard ==
    \A k \in 1..Len(uploadedFiles) :
        uploadedFiles[k].id = masterFileId =>
            ~uploadedFiles[k].needsPerspectiveCorrection

\* C29: no two entries of uploadedFiles share an id.
C29_UploadIdsAreUnique ==
    \A j, k \in 1..Len(uploadedFiles) :
        uploadedFiles[j].id = uploadedFiles[k].id => j = k

\* C26: whenever the Previewer renders a non-empty list, currentIndex is
\* a position of that list.
C26_CurrentIndexInRange ==
    (pc = "preview" /\ Len(processedFiles) > 0) =>
        /\ 0 <= currentIndex
        /\ currentIndex < Len(processedFiles)

\* C27: a run that can take no further step has left the processing state:
\* whenever nothing of the run is left to execute, isProcessing is false.
C27_RunEndsNotProcessing ==
    (bpc # "ready" /\ ~ENABLED NextBatch) => ~isProcessing

\* C28: the canvas computed for an image that was warped into an already
\* padded canvas is that same canvas, with no padding on any side.
C28_CanvasIsIdempotent ==
    pc = "canvas_again" =>
        /\ finalWidth = warpedWidth
        /\ finalHeight = warpedHeight
        /\ border = NoBorder

\* an attempt ended with an error the catch block retries on
Retryable(outcome) ==
    /\ outcome.kind = "error"
    /\ \/ includes(outcome.message, TimeoutWord)
       \/ includes(outcome.message, LoadFailedWord)
       \/ includes(outcome.message, NetworkWord)

====
